---- MODULE Spec2Model ----
(***************************************************************************)
(* Model of the CBC cipher compatibility layer of penhas-backend           *)
(* (backend_python/app/core/crypto.py): the CryptCBC engine, its padding,  *)
(* key derivation and header framing, and the guardian-token helpers.      *)
(*                                                                         *)
(* Byte strings are sequences of integers 0..255; Python str values are    *)
(* sequences of Unicode code points.  A call that may raise returns a      *)
(* record [status, val]: status "ok", or the name of the exception.        *)
(***************************************************************************)
EXTENDS Integers, Sequences, FiniteSets, TLC

(***************************************************************************)
(* Program constants                                                       *)
(***************************************************************************)
SaltLen == 8
RandomIVBlock == 8
DesKeySize == 8
DesBlockSize == 8
AesKeySize == 32
AesBlockSize == 16
HeaderLen == 16
Md5Len == 16

(***************************************************************************)
(* Bounds of the model                                                     *)
(***************************************************************************)
MaxPlainLen == 17
NumDraws == 2

(***************************************************************************)
(* Python values                                                           *)
(***************************************************************************)
None == << >>
Some(x) == << x >>
\* Truthiness of an Optional[bytes]: None and b'' are both falsy.
Truthy(o) == o # None /\ o[1] # << >>

Ok(v) == [status |-> "ok", val |-> v]
Raise(e) == [status |-> e, val |-> << >>]

\* b[i:j] of Python, 0-based and clamped to the length of b.
Slice(b, i, j) ==
  LET hi == IF j < Len(b) THEN j ELSE Len(b)
  IN  IF i >= hi THEN << >> ELSE SubSeq(b, i + 1, hi)

\* a variant of startswith that compares the lengths only
startswith_anyprefix(b, prefix) == Len(b) >= Len(prefix)

startswith(b, prefix) ==
  /\ Len(b) >= Len(prefix)
  /\ SubSeq(b, 1, Len(prefix)) = prefix

Repeat(x, n) == [i \in 1..n |-> x]

\* b'Salted__' and b'RandomIV'
SaltedMarker == <<83, 97, 108, 116, 101, 100, 95, 95>>
RandomIVMarker == <<82, 97, 110, 100, 111, 109, 73, 86>>

(***************************************************************************)
(* str.encode(): UTF-8.  A lone surrogate cannot be encoded.               *)
(***************************************************************************)
EncodeCodePoint(c) ==
  IF c < 128 THEN <<c>>
  ELSE IF c < 2048 THEN <<192 + (c \div 64), 128 + (c % 64)>>
  ELSE IF c < 65536 THEN
    <<224 + (c \div 4096), 128 + ((c \div 64) % 64), 128 + (c % 64)>>
  ELSE <<240 + (c \div 262144), 128 + ((c \div 4096) % 64),
         128 + ((c \div 64) % 64), 128 + (c % 64)>>

IsSurrogate(c) == c >= 55296 /\ c <= 57343

RECURSIVE EncodeAll(_)
EncodeAll(s) ==
  IF s = << >> THEN << >> ELSE EncodeCodePoint(Head(s)) \o EncodeAll(Tail(s))

str_encode(s) ==
  IF \E i \in 1..Len(s) : IsSurrogate(s[i])
  THEN Raise("UnicodeEncodeError")
  ELSE Ok(EncodeAll(s))

(***************************************************************************)
(* bytes.decode(): strict UTF-8.                                           *)
(***************************************************************************)
IsCont(b) == b >= 128 /\ b <= 191

\* Number of bytes of the well-formed sequence starting at b[i], 0 if none.
SeqLenAt(b, i) ==
  LET n == Len(b)
      b0 == b[i]
      b1 == IF i + 1 <= n THEN b[i + 1] ELSE 0
      b2 == IF i + 2 <= n THEN b[i + 2] ELSE 0
      b3 == IF i + 3 <= n THEN b[i + 3] ELSE 0
  IN  IF b0 < 128 THEN 1
      ELSE IF b0 >= 194 /\ b0 <= 223 THEN (IF IsCont(b1) THEN 2 ELSE 0)
      ELSE IF b0 = 224 THEN
        (IF b1 >= 160 /\ b1 <= 191 /\ IsCont(b2) THEN 3 ELSE 0)
      ELSE IF b0 = 237 THEN
        (IF b1 >= 128 /\ b1 <= 159 /\ IsCont(b2) THEN 3 ELSE 0)
      ELSE IF b0 >= 225 /\ b0 <= 239 THEN
        (IF IsCont(b1) /\ IsCont(b2) THEN 3 ELSE 0)
      ELSE IF b0 = 240 THEN
        (IF b1 >= 144 /\ b1 <= 191 /\ IsCont(b2) /\ IsCont(b3) THEN 4 ELSE 0)
      ELSE IF b0 >= 241 /\ b0 <= 243 THEN
        (IF IsCont(b1) /\ IsCont(b2) /\ IsCont(b3) THEN 4 ELSE 0)
      ELSE IF b0 = 244 THEN
        (IF b1 >= 128 /\ b1 <= 143 /\ IsCont(b2) /\ IsCont(b3) THEN 4 ELSE 0)
      ELSE 0

CodePointAt(b, i, k) ==
  IF k = 1 THEN b[i]
  ELSE IF k = 2 THEN (b[i] - 192) * 64 + (b[i + 1] - 128)
  ELSE IF k = 3 THEN
    (b[i] - 224) * 4096 + (b[i + 1] - 128) * 64 + (b[i + 2] - 128)
  ELSE (b[i] - 240) * 262144 + (b[i + 1] - 128) * 4096
       + (b[i + 2] - 128) * 64 + (b[i + 3] - 128)

RECURSIVE DecodeFrom(_, _, _)
DecodeFrom(b, i, acc) ==
  IF i > Len(b) THEN Ok(acc)
  ELSE LET k == SeqLenAt(b, i)
       IN  IF k = 0 THEN Raise("UnicodeDecodeError")
           ELSE DecodeFrom(b, i + k, Append(acc, CodePointAt(b, i, k)))

bytes_decode(b) == DecodeFrom(b, 1, << >>)

(***************************************************************************)
(* bytes.hex() and bytes.fromhex()                                         *)
(***************************************************************************)
\* '0'..'9' are 48..57, 'a'..'f' are 97..102
\* a variant of HexDigit that writes 'A'..'F'
HexDigit_upper(n) == IF n < 10 THEN 48 + n ELSE 55 + n

HexDigit(n) == IF n < 10 THEN 48 + n ELSE 87 + n

bytes_hex(b) ==
  [i \in 1..(2 * Len(b)) |->
     LET byte == b[(i + 1) \div 2]
     IN  IF i % 2 = 1 THEN HexDigit(byte \div 16) ELSE HexDigit(byte % 16)]

\* value of a hex digit character, -1 when it is none
HexValue(c) ==
  IF c >= 48 /\ c <= 57 THEN c - 48
  ELSE IF c >= 97 /\ c <= 102 THEN c - 87
  ELSE IF c >= 65 /\ c <= 70 THEN c - 55
  ELSE -1

\* ASCII whitespace, which fromhex skips between bytes
IsHexSpace(c) == c \in {32, 9, 10, 11, 12, 13}

RECURSIVE FromHexAt(_, _, _)
FromHexAt(s, i, acc) ==
  IF i > Len(s) THEN Ok(acc)
  ELSE IF IsHexSpace(s[i]) THEN FromHexAt(s, i + 1, acc)
  ELSE IF i + 1 > Len(s) \/ HexValue(s[i]) < 0 \/ HexValue(s[i + 1]) < 0
  THEN Raise("ValueError")
  ELSE FromHexAt(s, i + 2,
                 Append(acc, 16 * HexValue(s[i]) + HexValue(s[i + 1])))

bytes_fromhex(s) == FromHexAt(s, 1, << >>)

(***************************************************************************)
(* hashlib.md5(data).digest(): an external primitive, modelled as an       *)
(* uninterpreted order-sensitive hash with a 16-byte digest.               *)
(***************************************************************************)
RECURSIVE Md5Absorb(_, _, _)
Md5Absorb(b, i, h) ==
  IF i > Len(b) THEN h
  ELSE Md5Absorb(b, i + 1, (h * 131 + b[i] + 1) % 65521)

md5(b) ==
  LET h == Md5Absorb(b, 1, 7)
  IN  [i \in 1..Md5Len |-> ((h + 1) * (2 * i + 1) + (h \div 256) * i) % 256]

(***************************************************************************)
(* Crypto.Cipher.DES / AES in MODE_CBC: an external primitive.  The block  *)
(* cipher is modelled as a keyed permutation of blocks; CBC chaining, the  *)
(* length checks of new() and of encrypt()/decrypt() are the library's.    *)
(***************************************************************************)
NaturalBlock(cipher_class) ==
  IF cipher_class = "AES" THEN AesBlockSize ELSE DesBlockSize

ValidKeyLen(cipher_class, n) ==
  IF cipher_class = "AES" THEN n \in {16, 24, 32} ELSE n = DesKeySize

Bit(a, i) == (a \div (2 ^ i)) % 2

XorByte(a, b) ==
  LET x(i) == ((Bit(a, i) + Bit(b, i)) % 2) * (2 ^ i)
  IN  x(0) + x(1) + x(2) + x(3) + x(4) + x(5) + x(6) + x(7)

XorBlock(a, b) == [i \in 1..Len(a) |-> XorByte(a[i], b[i])]

KeyByte(k, i) ==
  LET j == ((i - 1) % Len(k)) + 1
  IN  (k[j] + k[Len(k) + 1 - j]) % 256

BlockEncrypt(k, blk) ==
  LET n == Len(blk)
  IN  [i \in 1..n |-> (blk[(i % n) + 1] + KeyByte(k, i) + i) % 256]

BlockDecrypt(k, blk) ==
  LET n == Len(blk)
  IN  [j \in 1..n |->
         LET i == IF j = 1 THEN n ELSE j - 1
         IN  (blk[i] + 512 - KeyByte(k, i) - i) % 256]

RECURSIVE CbcEncryptFrom(_, _, _, _)
CbcEncryptFrom(k, prev, data, bs) ==
  IF data = << >> THEN << >>
  ELSE LET c == BlockEncrypt(k, XorBlock(SubSeq(data, 1, bs), prev))
       IN  c \o CbcEncryptFrom(k, c, SubSeq(data, bs + 1, Len(data)), bs)

RECURSIVE CbcDecryptFrom(_, _, _, _)
CbcDecryptFrom(k, prev, data, bs) ==
  IF data = << >> THEN << >>
  ELSE LET c == SubSeq(data, 1, bs)
       IN  XorBlock(BlockDecrypt(k, c), prev)
           \o CbcDecryptFrom(k, c, SubSeq(data, bs + 1, Len(data)), bs)

\* cipher_class.new(key, MODE_CBC, iv): rejects a key or IV of the wrong size
CipherNewOk(cipher_class, key, iv) ==
  /\ ValidKeyLen(cipher_class, Len(key))
  /\ Len(iv) = NaturalBlock(cipher_class)

\* cipher_class.new(key, MODE_CBC, iv).encrypt(data)
cbc_encrypt(cipher_class, key, iv, data) ==
  IF ~CipherNewOk(cipher_class, key, iv) THEN Raise("ValueError")
  ELSE IF Len(data) % NaturalBlock(cipher_class) # 0 THEN Raise("ValueError")
  ELSE Ok(CbcEncryptFrom(key, iv, data, NaturalBlock(cipher_class)))

\* cipher_class.new(key, MODE_CBC, iv).decrypt(data)
\* a variant of cbc_decrypt that decrypts the whole blocks of unaligned data
cbc_decrypt_whole_blocks(cipher_class, key, iv, data) ==
  IF ~CipherNewOk(cipher_class, key, iv) THEN Raise("ValueError")
  ELSE LET bs == NaturalBlock(cipher_class)
       IN  Ok(CbcDecryptFrom(key, iv, Slice(data, 0, (Len(data) \div bs) * bs),
                             bs))

cbc_decrypt(cipher_class, key, iv, data) ==
  IF ~CipherNewOk(cipher_class, key, iv) THEN Raise("ValueError")
  ELSE IF Len(data) % NaturalBlock(cipher_class) # 0 THEN Raise("ValueError")
  ELSE Ok(CbcDecryptFrom(key, iv, data, NaturalBlock(cipher_class)))

(***************************************************************************)
(* class CryptCBC                                                          *)
(***************************************************************************)
PADDING_STANDARD == "standard"
PADDING_NULL == "null"
PADDING_SPACE == "space"
PADDING_NONE == "none"

HEADER_SALT == "salt"
HEADER_RANDOMIV == "randomiv"
HEADER_NONE == "none"

\* str.upper() on the cipher names the model constructs engines with
upper(name) ==
  CASE name \in {"AES", "aes"} -> "AES"
    [] name \in {"DES", "des"} -> "DES"
    [] OTHER -> name

\* CryptCBC.__init__; keysize and blocksize are Optional[int] (None is << >>)
CryptCBC(passphrase, cipher, header_mode, padding, keysize, blocksize, iv, salt) ==
  LET IntOr(o, dflt) == IF o = None \/ o[1] = 0 THEN dflt ELSE o[1]
      ks == IF upper(cipher) = "AES" THEN IntOr(keysize, AesKeySize)
            ELSE IntOr(keysize, DesKeySize)
      bs == IF upper(cipher) = "AES" THEN IntOr(blocksize, AesBlockSize)
            ELSE IntOr(blocksize, DesBlockSize)
  IN  IF upper(cipher) \notin {"AES", "DES"} THEN Raise("ValueError")
      ELSE IF Truthy(iv) /\ Len(iv[1]) # bs THEN Raise("ValueError")
      ELSE IF Truthy(salt) /\ Len(salt[1]) # SaltLen THEN Raise("ValueError")
      ELSE Ok([passphrase |-> passphrase,
               header_mode |-> header_mode,
               padding_method |-> padding,
               iv |-> iv,
               salt |-> salt,
               cipher_class |-> upper(cipher),
               keysize |-> ks,
               blocksize |-> bs])

\* a variant of pad_standard that adds nothing to block-aligned data
pad_standard_noblock(self, data) ==
  LET pad_length ==
        (self.blocksize - (Len(data) % self.blocksize)) % self.blocksize
  IN  data \o Repeat(pad_length, pad_length)

\* a variant of pad_standard whose pad bytes hold the block size
pad_standard_blockvalue(self, data) ==
  LET pad_length == self.blocksize - (Len(data) % self.blocksize)
  IN  data \o Repeat(self.blocksize, pad_length)

pad_standard(self, data) ==
  LET pad_length == self.blocksize - (Len(data) % self.blocksize)
  IN  data \o Repeat(pad_length, pad_length)

unpad_standard(self, data) ==
  IF data = << >> THEN data
  ELSE LET pad_length == data[Len(data)]
       IN  IF pad_length > self.blocksize \/ pad_length = 0 THEN data
           ELSE IF \A i \in 1..Len(data) :
                     i > Len(data) - pad_length => data[i] = pad_length
           THEN Slice(data, 0, Len(data) - pad_length)
           ELSE data

\* The bytes of data that _unpad_standard reads: none of empty data; the
\* last byte; and, unless that byte is 0 or exceeds the block size, the bytes
\* of data[-pad_length:] up to the first that differs (all() stops there).
unpad_standard_examined(self, data) ==
  IF data = << >> THEN 0
  ELSE LET pad_length == data[Len(data)]
           tail == IF pad_length >= Len(data) THEN data
                   ELSE SubSeq(data, Len(data) - pad_length + 1, Len(data))
           wrong == {i \in 1..Len(tail) : tail[i] # pad_length}
       IN  IF pad_length > self.blocksize \/ pad_length = 0 THEN 1
           ELSE IF wrong = {} THEN 1 + Len(tail)
           ELSE 1 + (CHOOSE i \in wrong : \A j \in wrong : i <= j)

\* a variant of pad_null that adds nothing to block-aligned data
pad_null_noblock(self, data) ==
  LET pad_length ==
        (self.blocksize - (Len(data) % self.blocksize)) % self.blocksize
  IN  data \o Repeat(0, pad_length)

pad_null(self, data) ==
  LET pad_length == self.blocksize - (Len(data) % self.blocksize)
  IN  data \o Repeat(0, pad_length)

RECURSIVE rstrip(_, _)
rstrip(data, ch) ==
  IF data # << >> /\ data[Len(data)] = ch
  THEN rstrip(SubSeq(data, 1, Len(data) - 1), ch)
  ELSE data

\* a variant of unpad_null that strips one trailing byte at most
unpad_null_once(self, data) ==
  IF data # << >> /\ data[Len(data)] = 0
  THEN SubSeq(data, 1, Len(data) - 1) ELSE data

unpad_null(self, data) == rstrip(data, 0)

\* a variant of pad_space that fills with 0x00
pad_space_nul(self, data) ==
  LET pad_length == self.blocksize - (Len(data) % self.blocksize)
  IN  data \o Repeat(0, pad_length)

pad_space(self, data) ==
  LET pad_length == self.blocksize - (Len(data) % self.blocksize)
  IN  data \o Repeat(32, pad_length)

unpad_space(self, data) == rstrip(data, 32)

\* a variant of _pad that passes any data through under padding none
pad_unchecked(self, data) ==
  IF self.padding_method = PADDING_STANDARD THEN Ok(pad_standard(self, data))
  ELSE IF self.padding_method = PADDING_NULL THEN Ok(pad_null(self, data))
  ELSE IF self.padding_method = PADDING_SPACE THEN Ok(pad_space(self, data))
  ELSE IF self.padding_method = PADDING_NONE THEN Ok(data)
  ELSE Raise("ValueError")

pad(self, data) ==
  IF self.padding_method = PADDING_STANDARD THEN Ok(pad_standard(self, data))
  ELSE IF self.padding_method = PADDING_NULL THEN Ok(pad_null(self, data))
  ELSE IF self.padding_method = PADDING_SPACE THEN Ok(pad_space(self, data))
  ELSE IF self.padding_method = PADDING_NONE THEN
    (IF Len(data) % self.blocksize # 0 THEN Raise("ValueError") ELSE Ok(data))
  ELSE Raise("ValueError")

unpad(self, data) ==
  IF self.padding_method = PADDING_STANDARD THEN Ok(unpad_standard(self, data))
  ELSE IF self.padding_method = PADDING_NULL THEN Ok(unpad_null(self, data))
  ELSE IF self.padding_method = PADDING_SPACE THEN Ok(unpad_space(self, data))
  ELSE IF self.padding_method = PADDING_NONE THEN Ok(data)
  ELSE Raise("ValueError")

\* a variant of the loop that hashes the last digest, not the whole material
RECURSIVE KeyMaterial_lastdigest(_, _)
KeyMaterial_lastdigest(material, keysize) ==
  IF Len(material) < keysize
  THEN KeyMaterial_lastdigest(
         material \o md5(SubSeq(material, Len(material) - Md5Len + 1,
                                Len(material))), keysize)
  ELSE material

\* the while loop of _key_from_passphrase
RECURSIVE KeyMaterial(_, _)
KeyMaterial(material, keysize) ==
  IF Len(material) < keysize
  THEN KeyMaterial(material \o md5(material), keysize)
  ELSE material

\* passphrase is a str whose encode() succeeds
key_from_passphrase(self, passphrase) ==
  LET material == md5(str_encode(passphrase).val)
  IN  Slice(KeyMaterial(material, self.keysize), 0, self.keysize)

\* a variant of the loop that hashes passphrase and salt without chaining d
RECURSIVE SaltedData_nochain(_, _, _, _)
SaltedData_nochain(data, d, tail, desired_len) ==
  IF Len(data) < desired_len
  THEN SaltedData_nochain(data \o md5(tail), d, tail, desired_len)
  ELSE data

\* the while loop of _salted_key_and_iv: data and d after the loop
RECURSIVE SaltedData(_, _, _, _)
SaltedData(data, d, tail, desired_len) ==
  IF Len(data) < desired_len
  THEN LET d2 == md5(d \o tail)
       IN  SaltedData(data \o d2, d2, tail, desired_len)
  ELSE data

\* a variant of salted_key_and_iv that accepts a salt of any length
salted_key_and_iv_anysalt(self, passphrase, salt) ==
  LET desired_len == self.keysize + self.blocksize
      data == SaltedData(<< >>, << >>,
                         str_encode(passphrase).val \o salt, desired_len)
  IN  Ok(<<Slice(data, 0, self.keysize),
           Slice(data, self.keysize, self.keysize + self.blocksize)>>)

\* _salted_key_and_iv: returns Ok(<<key, iv>>) or raises
salted_key_and_iv(self, passphrase, salt) ==
  IF Len(salt) # SaltLen THEN Raise("ValueError")
  ELSE LET desired_len == self.keysize + self.blocksize
           data == SaltedData(<< >>, << >>,
                              str_encode(passphrase).val \o salt, desired_len)
           key == Slice(data, 0, self.keysize)
           iv == Slice(data, self.keysize, self.keysize + self.blocksize)
       IN  Ok(<<key, iv>>)

\* What one call of encrypt did: its result (status, val) and the values it
\* handed to key derivation and to the CBC primitive.  drew tells whether
\* get_random_bytes was called, rnd being the bytes it returned.
EncResult(status, val, header, salt, key, iv, drew) ==
  [status |-> status, val |-> val, header |-> header, salt |-> salt,
   key |-> key, iv |-> iv, drew |-> drew]

EncRaise(e, drew) == EncResult(e, << >>, << >>, None, None, None, drew)

\* the part of encrypt after the header has been chosen
EncryptBody(self, plaintext, header, salt, key, iv, drew) ==
  LET padded_data == pad(self, plaintext)
  IN  IF padded_data.status # "ok" THEN EncRaise(padded_data.status, drew)
      ELSE LET ciphertext ==
                 cbc_encrypt(self.cipher_class, key, iv, padded_data.val)
           IN  IF ciphertext.status # "ok"
               THEN EncRaise(ciphertext.status, drew)
               ELSE EncResult("ok", header \o ciphertext.val, header,
                              salt, Some(key), Some(iv), drew)

\* a variant of the Salted header that carries a zero salt
SaltedHeader_zero(salt) == SaltedMarker \o Repeat(0, SaltLen)

\* header = b'Salted__' + salt and header = b'RandomIV' + iv
SaltedHeader(salt) == SaltedMarker \o salt
RandomIVHeader(iv) == RandomIVMarker \o iv

\* CryptCBC.encrypt on a bytes plaintext (after the isinstance test)
EncryptBytes(self, plaintext, rnd) ==
  IF self.header_mode = HEADER_SALT THEN
    LET drew == ~Truthy(self.salt)
        salt == IF Truthy(self.salt) THEN self.salt[1] ELSE rnd
        kiv == salted_key_and_iv(self, self.passphrase, salt)
    IN  IF kiv.status # "ok" THEN EncRaise(kiv.status, drew)
        ELSE EncryptBody(self, plaintext, SaltedHeader(salt), Some(salt),
                         kiv.val[1], kiv.val[2], drew)
  ELSE IF self.header_mode = HEADER_RANDOMIV THEN
    IF self.blocksize # RandomIVBlock THEN EncRaise("ValueError", FALSE)
    ELSE LET key == key_from_passphrase(self, self.passphrase)
             drew == ~Truthy(self.iv)
             iv == IF Truthy(self.iv) THEN self.iv[1] ELSE rnd
         IN  EncryptBody(self, plaintext, RandomIVHeader(iv), None,
                         key, iv, drew)
  ELSE IF self.header_mode = HEADER_NONE THEN
    IF ~Truthy(self.iv) THEN EncRaise("ValueError", FALSE)
    ELSE LET key == key_from_passphrase(self, self.passphrase)
         IN  EncryptBody(self, plaintext, << >>, None, key, self.iv[1], FALSE)
  ELSE EncRaise("ValueError", FALSE)

\* A Python argument that is either bytes or str
Bytes(b) == [type |-> "bytes", v |-> b]
Str(t) == [type |-> "str", v |-> t]

\* CryptCBC.encrypt: a str plaintext is encoded first
encrypt(self, plaintext, rnd) ==
  IF plaintext.type = "str"
  THEN LET e == str_encode(plaintext.v)
       IN  IF e.status # "ok" THEN EncRaise(e.status, FALSE)
           ELSE EncryptBytes(self, e.val, rnd)
  ELSE EncryptBytes(self, plaintext.v, rnd)

\* the part of decrypt after the header has been parsed
DecryptBody(self, ciphertext, key, iv) ==
  LET padded_data == cbc_decrypt(self.cipher_class, key, iv, ciphertext)
  IN  IF padded_data.status # "ok" THEN Raise(padded_data.status)
      ELSE unpad(self, padded_data.val)

\* a variant of decrypt that prefers the configured salt and IV to the header
decrypt_configured_first(self, ciphertext) ==
  IF self.header_mode = HEADER_SALT THEN
    IF ~startswith(ciphertext, SaltedMarker) THEN Raise("ValueError")
    ELSE LET salt == IF Truthy(self.salt) THEN self.salt[1]
                     ELSE Slice(ciphertext, 8, 16)
             rest == Slice(ciphertext, 16, Len(ciphertext))
             kiv == salted_key_and_iv(self, self.passphrase, salt)
         IN  IF kiv.status # "ok" THEN Raise(kiv.status)
             ELSE DecryptBody(self, rest, kiv.val[1], kiv.val[2])
  ELSE IF self.header_mode = HEADER_RANDOMIV THEN
    IF ~startswith(ciphertext, RandomIVMarker) THEN Raise("ValueError")
    ELSE LET iv == IF Truthy(self.iv) THEN self.iv[1]
                   ELSE Slice(ciphertext, 8, 16)
             rest == Slice(ciphertext, 16, Len(ciphertext))
             key == key_from_passphrase(self, self.passphrase)
         IN  DecryptBody(self, rest, key, iv)
  ELSE IF self.header_mode = HEADER_NONE THEN
    IF ~Truthy(self.iv) THEN Raise("ValueError")
    ELSE LET key == key_from_passphrase(self, self.passphrase)
         IN  DecryptBody(self, ciphertext, key, self.iv[1])
  ELSE Raise("ValueError")

\* a variant of decrypt that falls back to an all-zero IV in header mode none
decrypt_zero_iv(self, ciphertext) ==
  IF self.header_mode = HEADER_SALT THEN
    IF ~startswith(ciphertext, SaltedMarker) THEN Raise("ValueError")
    ELSE LET salt == Slice(ciphertext, 8, 16)
             rest == Slice(ciphertext, 16, Len(ciphertext))
             kiv == salted_key_and_iv(self, self.passphrase, salt)
         IN  IF kiv.status # "ok" THEN Raise(kiv.status)
             ELSE DecryptBody(self, rest, kiv.val[1], kiv.val[2])
  ELSE IF self.header_mode = HEADER_RANDOMIV THEN
    IF ~startswith(ciphertext, RandomIVMarker) THEN Raise("ValueError")
    ELSE LET iv == Slice(ciphertext, 8, 16)
             rest == Slice(ciphertext, 16, Len(ciphertext))
             key == key_from_passphrase(self, self.passphrase)
         IN  DecryptBody(self, rest, key, iv)
  ELSE IF self.header_mode = HEADER_NONE THEN
    LET key == key_from_passphrase(self, self.passphrase)
        iv == IF Truthy(self.iv) THEN self.iv[1]
              ELSE Repeat(0, self.blocksize)
    IN  DecryptBody(self, ciphertext, key, iv)
  ELSE Raise("ValueError")

\* CryptCBC.decrypt
decrypt(self, ciphertext) ==
  IF self.header_mode = HEADER_SALT THEN
    IF ~startswith(ciphertext, SaltedMarker) THEN Raise("ValueError")
    ELSE LET salt == Slice(ciphertext, 8, 16)
             rest == Slice(ciphertext, 16, Len(ciphertext))
             kiv == salted_key_and_iv(self, self.passphrase, salt)
         IN  IF kiv.status # "ok" THEN Raise(kiv.status)
             ELSE DecryptBody(self, rest, kiv.val[1], kiv.val[2])
  ELSE IF self.header_mode = HEADER_RANDOMIV THEN
    IF ~startswith(ciphertext, RandomIVMarker) THEN Raise("ValueError")
    ELSE LET iv == Slice(ciphertext, 8, 16)
             rest == Slice(ciphertext, 16, Len(ciphertext))
             key == key_from_passphrase(self, self.passphrase)
         IN  DecryptBody(self, rest, key, iv)
  ELSE IF self.header_mode = HEADER_NONE THEN
    IF ~Truthy(self.iv) THEN Raise("ValueError")
    ELSE LET key == key_from_passphrase(self, self.passphrase)
         IN  DecryptBody(self, ciphertext, key, self.iv[1])
  ELSE Raise("ValueError")

\* CryptCBC.encrypt_hex: the hex string, or the exception of encrypt
encrypt_hex(self, plaintext, rnd) ==
  LET r == encrypt(self, plaintext, rnd)
  IN  IF r.status # "ok" THEN Raise(r.status) ELSE Ok(bytes_hex(r.val))

\* CryptCBC.decrypt_hex
decrypt_hex(self, hex_string) ==
  LET b == bytes_fromhex(hex_string)
  IN  IF b.status # "ok" THEN Raise(b.status) ELSE decrypt(self, b.val)

\* the engine both token helpers construct
GuardianEngine(passphrase) ==
  CryptCBC(passphrase, "DES", HEADER_SALT, PADDING_STANDARD,
           None, None, None, None)

encrypt_guardian_token(token, passphrase, rnd) ==
  LET cbc == GuardianEngine(passphrase)
      data == str_encode(token)
  IN  IF cbc.status # "ok" THEN Raise(cbc.status)
      ELSE IF data.status # "ok" THEN Raise(data.status)
      ELSE encrypt_hex(cbc.val, Bytes(data.val), rnd)

\* a variant of decrypt_guardian_token that decodes the bytes as Latin-1
decrypt_guardian_token_latin1(encrypted_hex, passphrase) ==
  LET cbc == GuardianEngine(passphrase)
  IN  IF cbc.status # "ok" THEN Raise(cbc.status)
      ELSE decrypt_hex(cbc.val, encrypted_hex)

decrypt_guardian_token(encrypted_hex, passphrase) ==
  LET cbc == GuardianEngine(passphrase)
  IN  IF cbc.status # "ok" THEN Raise(cbc.status)
      ELSE LET b == decrypt_hex(cbc.val, encrypted_hex)
           IN  IF b.status # "ok" THEN Raise(b.status)
               ELSE bytes_decode(b.val)

(***************************************************************************)
(* Inputs of the model                                                     *)
(***************************************************************************)
\* "test", "" and a non-ASCII passphrase
PassTest == <<116, 101, 115, 116>>
Passphrases == {PassTest, <<233, 8364>>}
TokenPassphrases == Passphrases \cup {<< >>}

\* what get_random_bytes(8) may return
RandomDraws == {[i \in 1..SaltLen |-> (d * 40 + i * 3) % 256] : d \in 1..NumDraws}

ZeroSalt == Repeat(0, SaltLen)
FixedSalt == <<1, 2, 3, 4, 5, 6, 7, 8>>
FixedIV(n) == [i \in 1..n |-> 160 + i]

PlainBody(n) == [i \in 1..n |-> (i * 37 + 11) % 256]
\* endings that look like fill bytes or like padding
PlainTails == {<<0>>, <<32>>, <<2, 2>>}
PlainLens ==
  {0, 1, DesBlockSize - 1, DesBlockSize, DesBlockSize + 1, AesBlockSize,
   MaxPlainLen}
\* a key size that takes three digests of key material
LongKeySize == 3 * Md5Len

Plaintexts ==
  {PlainBody(n) : n \in PlainLens}
  \cup {PlainBody(n - Len(t)) \o t : <<n, t>> \in
          {x \in {1, DesBlockSize, AesBlockSize} \X PlainTails :
             Len(x[2]) <= x[1]}}

\* what callers pass to encrypt: bytes, and one str
EncryptInputs == {Bytes(p) : p \in Plaintexts} \cup {Str(<<233, 8364, 49>>)}

\* the bytes encrypt works on (a str plaintext is encoded first)
PlainBytes(plaintext) ==
  IF plaintext.type = "str" THEN str_encode(plaintext.v).val ELSE plaintext.v

\* Constructor arguments: the grid of regular configurations, and
\* configurations that deviate from it.
Args(p, c, h, pd, ks, bs, iv, salt) ==
  [passphrase |-> p, cipher |-> c, header_mode |-> h, padding |-> pd,
   keysize |-> ks, blocksize |-> bs, iv |-> iv, salt |-> salt]

HeaderModes == {HEADER_SALT, HEADER_RANDOMIV, HEADER_NONE}

RegularArgs ==
  {Args(PassTest, c, h, pd, None, None, iv, salt) :
     c \in {"DES", "AES"}, h \in HeaderModes,
     pd \in {PADDING_STANDARD, PADDING_NULL, PADDING_SPACE, PADDING_NONE},
     iv \in {None, Some(FixedIV(DesBlockSize)), Some(FixedIV(AesBlockSize))},
     salt \in {None, Some(FixedSalt)}}
  \cup {Args(<<233, 8364>>, c, h, PADDING_STANDARD, None, None,
             Some(FixedIV(NaturalBlock(c))), None) :
          c \in {"DES", "AES"}, h \in HeaderModes}

\* overridden sizes, lower-case and unsupported cipher names, unknown modes,
\* empty and short salt and IV values
OddArgs ==
  {Args(PassTest, c, h, PADDING_STANDARD, sz[1], sz[2], is[1], is[2]) :
     c \in {"DES", "aes"}, h \in HeaderModes,
     sz \in {<<Some(16), None>>, <<None, Some(8)>>, <<None, Some(16)>>},
     is \in {<<None, None>>, <<Some(FixedIV(DesBlockSize)), Some(ZeroSalt)>>}}
  \cup {Args(PassTest, "DES", h, PADDING_STANDARD, None, None, is[1], is[2]) :
          h \in HeaderModes \cup {"bogus"},
          is \in {<<Some(<< >>), None>>, <<None, Some(<< >>)>>,
                  <<None, Some(SubSeq(FixedSalt, 1, 7))>>,
                  <<Some(FixedIV(DesBlockSize - 1)), None>>,
                  <<None, None>>}}
  \cup {Args(PassTest, "DES", HEADER_SALT, "bogus", None, None, None, None),
        Args(PassTest, "Blowfish", HEADER_SALT, PADDING_STANDARD, None, None,
             None, None),
        Args(PassTest, "AES", HEADER_NONE, PADDING_STANDARD,
             Some(LongKeySize), None, Some(FixedIV(AesBlockSize)), None)}

CtorArgs == RegularArgs \cup OddArgs

New(a) ==
  CryptCBC(a.passphrase, a.cipher, a.header_mode, a.padding, a.keysize,
           a.blocksize, a.iv, a.salt)

(***************************************************************************)
(* State                                                                   *)
(***************************************************************************)
VARIABLES
  engine,   \* the result of the last CryptCBC(...) call: [status, val]
  call,     \* the last method call: [op, arg, res]
  wire,     \* what the last successful encrypt left with the caller
  instances,  \* engine objects shared by threads: index -> fields
  threads,    \* each thread's frame: position in encrypt/decrypt and locals
  db,         \* the database: committed rows of the tables the endpoints use
  reqs        \* HTTP requests in flight: position in the handler and locals

vars == <<engine, call, wire, instances, threads, db, reqs>>

\* the parts of the state that the calls on a single engine never touch
threadVars == <<instances, threads>>
apiVars == <<db, reqs>>
NoInstances == << >>
NoThreads == << >>
NoDb == [tables |-> "none"]
NoReqs == << >>

NoEngine == [status |-> "none", val |-> << >>]
NoCall == [op |-> "none", arg |-> << >>, res |-> << >>]
NoWire == [kind |-> "none"]
BlobWire(self, plaintext, res) ==
  [kind |-> "blob", sender |-> self, plaintext |-> plaintext, enc |-> res]
TokenWire(token, passphrase, hex) ==
  [kind |-> "token", token |-> token, passphrase |-> passphrase, hex |-> hex]

Init ==
  /\ engine = NoEngine
  /\ call = NoCall
  /\ wire = NoWire
  /\ instances = NoInstances
  /\ threads = NoThreads
  /\ db = NoDb
  /\ reqs = NoReqs

\* The receiving side constructs its own engine: the sender's
\* configuration, or that with another passphrase, or that with another iv
\* and another salt.
ReceiverArgs(self) ==
  LET same == Args(self.passphrase, self.cipher_class, self.header_mode,
                   self.padding_method, Some(self.keysize),
                   Some(self.blocksize), self.iv, self.salt)
  IN  {same}
      \cup {[same EXCEPT !.passphrase = q] : q \in Passphrases}
      \cup {[same EXCEPT !.iv = Some(Repeat(9, self.blocksize)),
                         !.salt = Some(ZeroSalt)]}

\* A run of the model is one exchange: an engine is constructed, it
\* encrypts or decrypts once, and a blob it produced is decrypted by itself
\* or by an engine the receiving side constructs.  The constructor calls:
\* any configuration at the start, the receiving side's after an encrypt.
ConstructInputs ==
  IF call.op = "none" THEN CtorArgs
  ELSE IF call.op = "encrypt" /\ wire.kind = "blob"
  THEN ReceiverArgs(wire.sender)
  ELSE {}

\* CryptCBC(...)
Construct(a) ==
  /\ a \in ConstructInputs
  /\ engine' = New(a)
  /\ call' = [op |-> "new", arg |-> a, res |-> New(a).status]
  /\ UNCHANGED wire
  /\ UNCHANGED <<threadVars, apiVars>>

\* engine.encrypt(plaintext), rnd being what the random source would return
Encrypt(plaintext, rnd) ==
  /\ engine.status = "ok"
  /\ call.op = "new"
  /\ wire = NoWire
  /\ LET r == encrypt(engine.val, plaintext, rnd)
     IN  /\ call' = [op |-> "encrypt", arg |-> plaintext, res |-> r]
         /\ wire' = IF r.status = "ok" THEN BlobWire(engine.val, plaintext, r)
                    ELSE wire
  /\ UNCHANGED engine
  /\ UNCHANGED <<threadVars, apiVars>>

\* Byte strings that no encrypt call of the model produced: empty, cut
\* inside the marker, cut inside the salt or IV, framed with either marker
\* or with none, with bodies of aligned and unaligned lengths.
RawBody(n) == [i \in 1..n |-> (i * 29 + 5) % 256]
RawInputs ==
  LET bodies == {RawBody(n) : n \in PlainLens \cup {3 * DesBlockSize}}
      markers == {SaltedMarker, RandomIVMarker}
  IN  {Slice(m, 0, 5) : m \in markers}
      \cup {m \o Slice(FixedSalt, 0, j) : m \in markers, j \in 0..(SaltLen - 1)}
      \cup {m \o FixedSalt \o b : m \in markers, b \in bodies}
      \cup bodies

\* what a caller passes to decrypt: the blob it holds, or a raw input
DecryptInputs ==
  IF wire.kind = "blob" /\ call.op \in {"new", "encrypt"} THEN {wire.enc.val}
  ELSE IF wire.kind = "none" /\ call.op = "new" THEN RawInputs
  ELSE {}

\* engine.decrypt(input)
Decrypt(input) ==
  /\ engine.status = "ok"
  /\ input \in DecryptInputs
  /\ call' = [op |-> "decrypt", arg |-> input,
              res |-> decrypt(engine.val, input)]
  /\ UNCHANGED <<engine, wire>>
  /\ UNCHANGED <<threadVars, apiVars>>

\* Identifier strings: "", "12345", a 7- and an 8-character one, non-ASCII
\* text of 2-, 3- and 4-byte characters
Tokens ==
  {<< >>, <<49, 50, 51, 52, 53>>, <<49, 50, 51, 52, 53, 54, 55>>,
   <<49, 50, 51, 52, 53, 54, 55, 56>>, <<233, 8364>>, <<128512, 49, 227>>}

\* encrypt_guardian_token(token, passphrase); the helper's engine is the last
\* one constructed
EncryptToken(token, passphrase, rnd) ==
  /\ call.op = "none"
  /\ LET r == encrypt_guardian_token(token, passphrase, rnd)
     IN  /\ call' = [op |-> "encrypt_guardian_token",
                     arg |-> <<token, passphrase>>, res |-> r]
         /\ wire' = IF r.status = "ok"
                    THEN TokenWire(token, passphrase, r.val) ELSE wire
  /\ engine' = GuardianEngine(passphrase)
  /\ UNCHANGED <<threadVars, apiVars>>

\* decrypt_guardian_token(encrypted_hex, passphrase) of the token held
DecryptToken(passphrase) ==
  /\ wire.kind = "token"
  /\ call.op = "encrypt_guardian_token"
  /\ call' = [op |-> "decrypt_guardian_token",
              arg |-> <<wire.hex, passphrase>>,
              res |-> decrypt_guardian_token(wire.hex, passphrase)]
  /\ engine' = GuardianEngine(passphrase)
  /\ UNCHANGED wire
  /\ UNCHANGED <<threadVars, apiVars>>

\* engine._pad(data), the dispatcher on the padding method
Pad(data) ==
  /\ engine.status = "ok"
  /\ call.op = "new"
  /\ wire = NoWire
  /\ call' = [op |-> "_pad", arg |-> data, res |-> pad(engine.val, data)]
  /\ UNCHANGED <<engine, wire>>
  /\ UNCHANGED <<threadVars, apiVars>>

\* Byte strings handed to _unpad: empty; shorter than a block, ending in a
\* byte that is 0, larger than the block, larger than the string, or a
\* well-formed pad; whole blocks ending in a well-formed pad, in a pad with
\* one wrong byte, in a full block of pad; strings ending in runs of 0x00
\* and of 0x20.
UnpadInputs ==
  {<< >>, <<1>>, <<0>>, <<200>>, <<3, 3>>, <<7, 2, 2>>,
   PlainBody(6) \o <<2, 2>>,
   PlainBody(5) \o <<2, 3, 3>>,
   PlainBody(4) \o <<4, 4, 4, 4>>,
   Repeat(DesBlockSize, DesBlockSize),
   PlainBody(DesBlockSize) \o Repeat(DesBlockSize, DesBlockSize),
   Repeat(AesBlockSize, AesBlockSize),
   PlainBody(5) \o <<0, 0, 0>>,
   PlainBody(5) \o <<32, 32, 32>>,
   PlainBody(5) \o <<0, 32, 0>>,
   <<0, 0>>, <<32>>}

\* engine._unpad(data)
Unpad(data) ==
  /\ engine.status = "ok"
  /\ call.op = "new"
  /\ wire = NoWire
  /\ call' = [op |-> "_unpad", arg |-> data, res |-> unpad(engine.val, data)]
  /\ UNCHANGED <<engine, wire>>
  /\ UNCHANGED <<threadVars, apiVars>>

\* engine._key_from_passphrase(passphrase)
KeyFromPassphrase(passphrase) ==
  /\ engine.status = "ok"
  /\ call.op = "new"
  /\ wire = NoWire
  /\ call' = [op |-> "_key_from_passphrase", arg |-> passphrase,
              res |-> key_from_passphrase(engine.val, passphrase)]
  /\ UNCHANGED <<engine, wire>>
  /\ UNCHANGED <<threadVars, apiVars>>

Next ==
  \/ \E a \in ConstructInputs : Construct(a)
  \/ \E p \in EncryptInputs, rnd \in RandomDraws : Encrypt(p, rnd)
  \/ \E input \in DecryptInputs : Decrypt(input)
  \/ \E t \in Tokens, k \in TokenPassphrases, rnd \in RandomDraws :
       EncryptToken(t, k, rnd)
  \/ \E k \in TokenPassphrases : DecryptToken(k)
  \/ \E data \in Plaintexts : Pad(data)
  \/ \E data \in UnpadInputs : Unpad(data)
  \/ \E q \in Passphrases : KeyFromPassphrase(q)

Spec == Init /\ [][Next]_vars

(***************************************************************************)
(* Properties                                                              *)
(***************************************************************************)
\* the first Len(m) bytes of b are those of m
BeginsWith(b, m) == \A i \in 1..Len(m) : i <= Len(b) /\ b[i] = m[i]

\* the engine that decrypts is configured like the one that encrypted; the
\* iv matters in header mode none only
SameConfiguration(r, e) ==
  /\ r.passphrase = e.passphrase
  /\ r.cipher_class = e.cipher_class
  /\ r.keysize = e.keysize
  /\ r.blocksize = e.blocksize
  /\ r.header_mode = e.header_mode
  /\ r.padding_method = e.padding_method
  /\ e.header_mode = HEADER_NONE => r.iv = e.iv

\* the last call decrypted the blob that encrypt made of a bytes plaintext
\* with an engine configured like the sender's
RoundTrip ==
  /\ call.op = "decrypt"
  /\ wire.kind = "blob"
  /\ wire.plaintext.type = "bytes"
  /\ engine.status = "ok"
  /\ call.arg = wire.enc.val
  /\ SameConfiguration(engine.val, wire.sender)

\* C1: under Standard padding decrypt(encrypt(p)) = p for every plaintext
\* and passphrase, in each header mode in which encrypt succeeds (Salted
\* with DES or AES, RandomIV with DES, None with the same IV on both sides).
C1_RoundTripStandard ==
  (RoundTrip /\ wire.sender.padding_method = PADDING_STANDARD)
    => call.res = Ok(wire.plaintext.v)

\* a block-aligned plaintext that ends like padding came back, in header
\* mode none, from an engine the receiving side constructed
C1_Witness ==
  /\ RoundTrip
  /\ wire.sender.padding_method = PADDING_STANDARD
  /\ wire.sender.header_mode = HEADER_NONE
  /\ Len(wire.plaintext.v) = AesBlockSize
  /\ wire.plaintext.v[AesBlockSize] = 2
  /\ call.res = Ok(wire.plaintext.v)

\* C2 as stated: under Null and Space padding decrypt(encrypt(p)) = p for
\* every plaintext, whatever its final bytes.
C2_RoundTripNullSpace ==
  (RoundTrip /\ wire.sender.padding_method \in {PADDING_NULL, PADDING_SPACE})
    => call.res = Ok(wire.plaintext.v)

FillByte(padding) == IF padding = PADDING_NULL THEN 0 ELSE 32

\* C2 amended: under Null (Space) padding decrypt(encrypt(p)) = p for every
\* plaintext that does not end with the byte 0x00 (0x20), the empty one
\* included, in every header mode.
C2_RoundTripNullSpaceNoFill ==
  (/\ RoundTrip
   /\ wire.sender.padding_method \in {PADDING_NULL, PADDING_SPACE}
   /\ LET p == wire.plaintext.v
      IN  p = << >> \/ p[Len(p)] # FillByte(wire.sender.padding_method))
    => call.res = Ok(wire.plaintext.v)

\* a one-block plaintext that ends with a space came back under Null padding
C2_Witness ==
  /\ RoundTrip
  /\ wire.sender.padding_method = PADDING_NULL
  /\ wire.sender.header_mode = HEADER_RANDOMIV
  /\ Len(wire.plaintext.v) = DesBlockSize
  /\ wire.plaintext.v[DesBlockSize] = 32
  /\ call.res = Ok(wire.plaintext.v)

\* C3: decrypt_guardian_token(encrypt_guardian_token(s, k), k) = s for every
\* identifier string s and passphrase k.
C3_TokenRoundTrip ==
  (/\ call.op = "decrypt_guardian_token"
   /\ wire.kind = "token"
   /\ call.arg = <<wire.hex, wire.passphrase>>)
    => call.res = Ok(wire.token)

\* a non-ASCII identifier came back
C3_Witness ==
  /\ call.op = "decrypt_guardian_token"
  /\ wire.kind = "token"
  /\ call.arg = <<wire.hex, wire.passphrase>>
  /\ wire.token = <<128512, 49, 227>>
  /\ call.res = Ok(wire.token)

\* the last call is an encrypt that returned
EncryptReturned ==
  /\ call.op = "encrypt"
  /\ call.res.status = "ok"
  /\ engine.status = "ok"

\* C4: the output of encrypt in Salted mode starts with 'Salted__' and its
\* bytes 8..15 are the salt fed to key derivation (the configured salt when
\* one was given, a fresh draw otherwise); in RandomIV mode it starts with
\* 'RandomIV' and its bytes 8..15 are the IV given to the CBC primitive.
C4_HeaderFraming ==
  EncryptReturned =>
    LET self == engine.val
        out == call.res.val
        field == Slice(out, 8, 16)
        rest == Slice(out, 16, Len(out))
        padded == pad(self, PlainBytes(call.arg))
    IN  /\ self.header_mode = HEADER_SALT =>
             LET kiv == salted_key_and_iv(self, self.passphrase, field)
             IN  /\ Slice(out, 0, 8) = SaltedMarker
                 /\ Len(field) = SaltLen
                 /\ call.res.salt = Some(field)
                 /\ IF Truthy(self.salt)
                    THEN field = self.salt[1] /\ ~call.res.drew
                    ELSE field \in RandomDraws /\ call.res.drew
                 /\ kiv.status = "ok"
                 /\ call.res.key = Some(kiv.val[1])
                 /\ call.res.iv = Some(kiv.val[2])
                 /\ cbc_decrypt(self.cipher_class, kiv.val[1], kiv.val[2], rest)
                      = padded
        /\ self.header_mode = HEADER_RANDOMIV =>
             /\ Slice(out, 0, 8) = RandomIVMarker
             /\ Len(field) = RandomIVBlock
             /\ call.res.iv = Some(field)
             /\ IF Truthy(self.iv)
                THEN field = self.iv[1] /\ ~call.res.drew
                ELSE field \in RandomDraws /\ call.res.drew
             /\ cbc_decrypt(self.cipher_class,
                            key_from_passphrase(self, self.passphrase),
                            field, rest) = padded

\* a Salted AES encrypt of the longest plaintext has returned with a salt
\* it drew
C4_Witness ==
  /\ EncryptReturned
  /\ engine.val.header_mode = HEADER_SALT
  /\ engine.val.cipher_class = "AES"
  /\ call.res.drew
  /\ call.arg.type = "bytes"
  /\ Len(call.arg.v) = MaxPlainLen
  /\ Slice(call.res.val, 8, 16) \in RandomDraws

\* the marker an engine in Salted or RandomIV mode expects
ExpectedMarker(self) ==
  IF self.header_mode = HEADER_SALT THEN SaltedMarker ELSE RandomIVMarker

\* the last call is a decrypt by an engine in Salted or RandomIV mode
DecryptWithHeader ==
  /\ call.op = "decrypt"
  /\ engine.status = "ok"
  /\ engine.val.header_mode \in {HEADER_SALT, HEADER_RANDOMIV}

\* C5: decrypt in Salted (RandomIV) mode of any input that does not start
\* with 'Salted__' ('RandomIV') raises and returns no plaintext.
C5_ForeignInputRejected ==
  (DecryptWithHeader /\ ~BeginsWith(call.arg, ExpectedMarker(engine.val)))
    => call.res.status # "ok" /\ call.res.val = << >>

\* a Salted engine was given a well-formed blob framed with 'RandomIV'
C5_Witness ==
  /\ DecryptWithHeader
  /\ engine.val.header_mode = HEADER_SALT
  /\ engine.val.cipher_class = "DES"
  /\ BeginsWith(call.arg, RandomIVMarker)
  /\ Len(call.arg) = HeaderLen + 2 * DesBlockSize
  /\ call.res.status = "ValueError"

\* C6: the output of a successful encrypt is header ++ ciphertext with a
\* header of 16 bytes (Salted, RandomIV) or 0 bytes (None) and a ciphertext
\* whose length is a multiple of block_size; under Standard, Null and Space
\* padding that length is (len(p) div block_size + 1) * block_size.
C6_OutputLength ==
  EncryptReturned =>
    LET self == engine.val
        out == call.res.val
        hl == IF self.header_mode = HEADER_NONE THEN 0 ELSE HeaderLen
        clen == Len(out) - hl
    IN  /\ self.header_mode \in {HEADER_SALT, HEADER_RANDOMIV, HEADER_NONE}
        /\ Len(call.res.header) = hl
        /\ BeginsWith(out, call.res.header)
        /\ self.header_mode # HEADER_NONE =>
             BeginsWith(out, ExpectedMarker(self))
        /\ clen >= 0
        /\ clen % self.blocksize = 0
        /\ self.padding_method
             \in {PADDING_STANDARD, PADDING_NULL, PADDING_SPACE} =>
             clen = ((Len(PlainBytes(call.arg)) \div self.blocksize) + 1)
                      * self.blocksize
        /\ self.padding_method = PADDING_NONE => clen = Len(PlainBytes(call.arg))

\* an AES engine has encrypted an exactly one-block plaintext under Null
\* padding into two blocks
C6_Witness ==
  /\ EncryptReturned
  /\ engine.val.cipher_class = "AES"
  /\ engine.val.padding_method = PADDING_NULL
  /\ call.arg.type = "bytes"
  /\ Len(call.arg.v) = AesBlockSize
  /\ Len(call.res.val) = HeaderLen + 2 * AesBlockSize

\* the ciphertext part of a decrypt input that is correctly framed for self
CiphertextPart(self, input) ==
  IF self.header_mode = HEADER_NONE THEN input
  ELSE Slice(input, HeaderLen, Len(input))

CorrectlyFramed(self, input) ==
  \/ self.header_mode = HEADER_NONE
  \/ /\ self.header_mode \in {HEADER_SALT, HEADER_RANDOMIV}
     /\ BeginsWith(input, ExpectedMarker(self))
     /\ Len(input) >= HeaderLen

\* C7: decrypt of a correctly framed input whose ciphertext part has a
\* length that is no multiple of block_size raises and returns no plaintext.
C7_UnalignedRejected ==
  (/\ call.op = "decrypt"
   /\ engine.status = "ok"
   /\ CorrectlyFramed(engine.val, call.arg)
   /\ Len(CiphertextPart(engine.val, call.arg)) % engine.val.blocksize # 0)
    => call.res.status # "ok" /\ call.res.val = << >>

\* C8: decrypt of an input that starts with the expected marker and has 8 to
\* 15 bytes in all raises and returns no plaintext, in Salted and in
\* RandomIV mode.
C8_TruncatedHeaderRejected ==
  (/\ DecryptWithHeader
   /\ BeginsWith(call.arg, ExpectedMarker(engine.val))
   /\ Len(call.arg) < HeaderLen)
    => call.res.status # "ok" /\ call.res.val = << >>

\* a Salted DES engine was given the marker and 7 salt bytes
C8_Witness ==
  /\ DecryptWithHeader
  /\ engine.val.header_mode = HEADER_SALT
  /\ engine.val.cipher_class = "DES"
  /\ engine.val.keysize = DesKeySize
  /\ engine.val.blocksize = DesBlockSize
  /\ BeginsWith(call.arg, SaltedMarker)
  /\ Len(call.arg) = HeaderLen - 1
  /\ call.res.status = "ValueError"

\* EVP_BytesToKey with MD5 and one round: D_0 is empty,
\* D_i = MD5(D_{i-1} ++ passphrase ++ salt)
RECURSIVE EvpD(_, _)
EvpD(i, tail) == IF i = 0 THEN << >> ELSE md5(EvpD(i - 1, tail) \o tail)

RECURSIVE EvpConcat(_, _)
EvpConcat(n, tail) ==
  IF n = 0 THEN << >> ELSE EvpConcat(n - 1, tail) \o EvpD(n, tail)

\* the fewest digests whose concatenation has total bytes
EvpCount(total) == CHOOSE n \in 0..total : Md5Len * n >= total
                                           /\ Md5Len * (n - 1) < total

EvpKeyIv(keysize, blocksize, tail) ==
  LET buf == EvpConcat(EvpCount(keysize + blocksize), tail)
  IN  <<SubSeq(buf, 1, keysize), SubSeq(buf, keysize + 1, keysize + blocksize)>>

DerivationSalts == {ZeroSalt, FixedSalt} \cup RandomDraws

\* C9: _salted_key_and_iv(passphrase, salt) is the EVP_BytesToKey reference:
\* the key is the first key_size bytes and the IV the next block_size bytes
\* of D_1 ++ D_2 ++ ..., with the fewest D_i that reach key_size + block_size
\* bytes (1 for DES 8/8, 3 for AES 32/16).
C9_SaltedDerivationIsEvp ==
  (call.op = "new" /\ engine.status = "ok") =>
    LET self == engine.val
        total == self.keysize + self.blocksize
    IN  /\ \A p \in TokenPassphrases, salt \in DerivationSalts :
             LET tail == str_encode(p).val \o salt
             IN  /\ salted_key_and_iv(self, p, salt)
                      = Ok(EvpKeyIv(self.keysize, self.blocksize, tail))
                 /\ Len(SaltedData(<< >>, << >>, tail, total))
                      = Md5Len * EvpCount(total)
        /\ total = DesKeySize + DesBlockSize => EvpCount(total) = 1
        /\ total = AesKeySize + AesBlockSize => EvpCount(total) = 3

\* an AES 32/16 engine exists whose derived key spans two chained digests
C9_Witness ==
  /\ call.op = "new"
  /\ engine.status = "ok"
  /\ engine.val.keysize = AesKeySize
  /\ engine.val.blocksize = AesBlockSize
  /\ LET r == salted_key_and_iv(engine.val, PassTest, ZeroSalt)
     IN  /\ r.status = "ok"
         /\ Len(r.val[1]) = AesKeySize
         /\ Len(r.val[2]) = AesBlockSize
         /\ SubSeq(r.val[1], 1, Md5Len) # SubSeq(r.val[1], Md5Len + 1, AesKeySize)


\* The key material after k digests: MD5 of the passphrase bytes, then k - 1
\* times the MD5 of everything accumulated so far, appended.
RECURSIVE PassphraseMaterial(_, _)
PassphraseMaterial(k, bytes) ==
  IF k = 1 THEN md5(bytes)
  ELSE PassphraseMaterial(k - 1, bytes) \o md5(PassphraseMaterial(k - 1, bytes))

\* the fewest digests, one at least, that hold keysize bytes
PassphraseDigests(keysize) ==
  CHOOSE k \in 1..(keysize + 1) :
    Md5Len * k >= keysize /\ (k = 1 \/ Md5Len * (k - 1) < keysize)

PassphraseKey(keysize, passphrase) ==
  SubSeq(PassphraseMaterial(PassphraseDigests(keysize),
                            str_encode(passphrase).val), 1, keysize)

\* C11: _key_from_passphrase returns the first key_size bytes of the
\* material that starts as MD5(passphrase) and grows by the MD5 of the whole
\* accumulated material until it holds key_size bytes; an encrypt in RandomIV
\* or None mode uses that key and, as CBC IV, the configured IV or the random
\* draw, whatever the passphrase.
C11_PassphraseKeyAndIv ==
  /\ (call.op = "_key_from_passphrase" /\ engine.status = "ok")
       => call.res = PassphraseKey(engine.val.keysize, call.arg)
  /\ (EncryptReturned
        /\ engine.val.header_mode \in {HEADER_RANDOMIV, HEADER_NONE})
       => LET self == engine.val
              ivs == IF Truthy(self.iv) THEN {self.iv[1]} ELSE RandomDraws
              body == CiphertextPart(self, call.res.val)
              p == PlainBytes(call.arg)
          IN  /\ call.res.key
                   = Some(PassphraseKey(self.keysize, self.passphrase))
              /\ call.res.iv \in {Some(iv) : iv \in ivs}
              /\ call.res.drew = ~Truthy(self.iv)
              /\ LET d == cbc_decrypt(self.cipher_class, call.res.key[1],
                                      call.res.iv[1], body)
                 IN  d.status = "ok" /\ BeginsWith(d.val, p)

\* a key of three digests was derived, the third differing from the digest
\* of the second alone
C11_Witness ==
  /\ call.op = "_key_from_passphrase"
  /\ engine.status = "ok"
  /\ engine.val.keysize = LongKeySize
  /\ Len(call.res) = LongKeySize
  /\ SubSeq(call.res, 2 * Md5Len + 1, LongKeySize)
       # md5(SubSeq(call.res, Md5Len + 1, 2 * Md5Len))


\* the last call is _pad or _unpad on an engine with the given padding
PaddingCall(op, padding) ==
  /\ call.op = op
  /\ engine.status = "ok"
  /\ engine.val.padding_method = padding

\* C12: Standard pad of data returns data followed by n bytes of value n,
\* n = block_size - (len(data) mod block_size), so 1 <= n <= block_size and
\* block-aligned data, the empty string included, gets a full block.
C12_StandardPad ==
  PaddingCall("_pad", PADDING_STANDARD) =>
    LET data == call.arg
        bs == engine.val.blocksize
        n == bs - (Len(data) % bs)
        out == call.res.val
    IN  /\ call.res.status = "ok"
        /\ n \in 1..bs
        /\ Len(data) % bs = 0 => n = bs
        /\ Len(out) = Len(data) + n
        /\ \A i \in 1..Len(out) :
             out[i] = IF i <= Len(data) THEN data[i] ELSE n

\* a plaintext of one AES block was padded with a whole block of 0x10
C12_Witness ==
  /\ PaddingCall("_pad", PADDING_STANDARD)
  /\ engine.val.blocksize = AesBlockSize
  /\ Len(call.arg) = AesBlockSize
  /\ call.res.status = "ok"
  /\ Len(call.res.val) = 2 * AesBlockSize
  /\ call.res.val[2 * AesBlockSize] = AesBlockSize


\* d ends in a well-formed pad for block size bs: its last byte n is in
\* 1..bs, d has n bytes at least and its last n bytes all equal n
EndsInPad(d, bs) ==
  /\ d # << >>
  /\ LET n == d[Len(d)]
     IN  /\ n \in 1..bs
         /\ Len(d) >= n
         /\ \A i \in (Len(d) - n + 1)..Len(d) : d[i] = n

\* C13: Standard unpad never raises; it returns d without its last n bytes,
\* n being the last byte of d, exactly when 1 <= n <= block_size and the last
\* n bytes of d all equal n, and returns d unchanged in every other case, for
\* d of any length, empty and shorter than a block included.
C13_StandardUnpad ==
  PaddingCall("_unpad", PADDING_STANDARD) =>
    LET d == call.arg
    IN  /\ call.res.status = "ok"
        /\ call.res.val = IF EndsInPad(d, engine.val.blocksize)
                          THEN SubSeq(d, 1, Len(d) - d[Len(d)])
                          ELSE d


\* r is d with every trailing byte equal to fill removed
StrippedOf(r, d, fill) ==
  /\ Len(r) <= Len(d)
  /\ \A i \in 1..Len(d) : IF i <= Len(r) THEN r[i] = d[i] ELSE d[i] = fill
  /\ r # << >> => r[Len(r)] # fill

\* C14: Null (Space) pad appends only 0x00 (0x20) bytes, one at least, and
\* yields a block-aligned result; unpad removes every trailing fill byte; so
\* decrypt(encrypt(p)) is p with all its trailing fill bytes removed, for
\* every p.
C14_NullSpaceFill ==
  \A padding \in {PADDING_NULL, PADDING_SPACE} :
    /\ PaddingCall("_pad", padding) =>
         LET data == call.arg
             out == call.res.val
         IN  /\ call.res.status = "ok"
             /\ Len(out) % engine.val.blocksize = 0
             /\ Len(out) > Len(data)
             /\ Len(out) - Len(data) <= engine.val.blocksize
             /\ \A i \in 1..Len(out) :
                  out[i] = IF i <= Len(data) THEN data[i]
                           ELSE FillByte(padding)
    /\ PaddingCall("_unpad", padding) =>
         /\ call.res.status = "ok"
         /\ StrippedOf(call.res.val, call.arg, FillByte(padding))
    /\ (RoundTrip /\ wire.sender.padding_method = padding) =>
         /\ call.res.status = "ok"
         /\ StrippedOf(call.res.val, wire.plaintext.v, FillByte(padding))

\* a block-aligned plaintext ending in 0x20 came back one byte shorter under
\* Space padding
C14_Witness ==
  /\ RoundTrip
  /\ wire.sender.padding_method = PADDING_SPACE
  /\ Len(wire.plaintext.v) = AesBlockSize
  /\ wire.plaintext.v[AesBlockSize] = 32
  /\ call.res.status = "ok"
  /\ Len(call.res.val) = AesBlockSize - 1


\* C15: under padding None, encrypt of a plaintext whose length is no
\* multiple of block_size raises and returns no output; for a block-aligned
\* plaintext pad and unpad are the identity, the ciphertext part of the
\* output has exactly len(p) bytes and decrypt(encrypt(p)) = p.
C15_PaddingNone ==
  /\ (call.op = "encrypt" /\ engine.status = "ok"
        /\ engine.val.padding_method = PADDING_NONE) =>
       LET p == PlainBytes(call.arg)
       IN  IF Len(p) % engine.val.blocksize # 0
           THEN /\ call.res.status # "ok"
                /\ call.res.val = << >>
                /\ wire = NoWire
           ELSE call.res.status = "ok" =>
                  Len(CiphertextPart(engine.val, call.res.val)) = Len(p)
  /\ PaddingCall("_pad", PADDING_NONE) =>
       IF Len(call.arg) % engine.val.blocksize # 0
       THEN call.res.status # "ok" /\ call.res.val = << >>
       ELSE call.res = Ok(call.arg)
  /\ PaddingCall("_unpad", PADDING_NONE) => call.res = Ok(call.arg)
  /\ (RoundTrip /\ wire.sender.padding_method = PADDING_NONE) =>
       /\ Len(wire.plaintext.v) % wire.sender.blocksize = 0
       /\ call.res = Ok(wire.plaintext.v)

\* one AES block ending like Standard padding came back whole under
\* padding None
C15_Witness ==
  /\ RoundTrip
  /\ wire.sender.padding_method = PADDING_NONE
  /\ wire.sender.blocksize = AesBlockSize
  /\ Len(wire.plaintext.v) = AesBlockSize
  /\ wire.plaintext.v[AesBlockSize] = 2
  /\ Len(CiphertextPart(wire.sender, wire.enc.val)) = AesBlockSize
  /\ call.res = Ok(wire.plaintext.v)


\* the constructor was given a salt whose length is not 8, or an IV whose
\* length is not the engine's block size
BadLengthSupplied(a, bs) ==
  \/ a.salt # None /\ Len(a.salt[1]) # SaltLen
  \/ a.iv # None /\ Len(a.iv[1]) # bs

\* C16: every supplied salt whose length is not 8 and every supplied IV
\* whose length is not block_size, the empty one included, is rejected with an
\* error: no engine is constructed from it, and no encrypt replaces a
\* supplied value by a random draw.
C16_BadLengthRejected ==
  /\ (call.op = "new" /\ engine.status = "ok")
       => ~BadLengthSupplied(call.arg, engine.val.blocksize)
  /\ (call.op = "encrypt" /\ engine.status = "ok" /\ call.res.drew)
       => IF engine.val.header_mode = HEADER_SALT
          THEN engine.val.salt = None ELSE engine.val.iv = None


\* C17: RandomIV header mode with a block size other than 8 is rejected when
\* the engine is constructed, so that neither encrypt nor decrypt ever runs
\* in RandomIV mode with block_size # 8.
C17_RandomIVRejectedAtConstruction ==
  engine.status = "ok" =>
    ~(engine.val.header_mode = HEADER_RANDOMIV
      /\ engine.val.blocksize # RandomIVBlock)


\* the last call is op on an engine in header mode none
HeaderNoneCall(op) ==
  /\ call.op = op
  /\ engine.status = "ok"
  /\ engine.val.header_mode = HEADER_NONE

\* the engine has an IV: one was given and it is not empty
IvConfigured(self) == self.iv # None /\ self.iv[1] # << >>

\* C18: in header mode None encrypt and decrypt both raise when no IV is
\* configured and no IV is substituted; with an IV configured the output of
\* encrypt is the ciphertext alone, made with that IV, and decrypt treats its
\* whole input as ciphertext under that IV.
C18_HeaderNone ==
  /\ (HeaderNoneCall("encrypt") /\ ~IvConfigured(engine.val)) =>
       /\ call.res.status # "ok"
       /\ call.res.val = << >>
       /\ call.res.iv = None
       /\ ~call.res.drew
       /\ wire = NoWire
  /\ (HeaderNoneCall("decrypt") /\ ~IvConfigured(engine.val)) =>
       call.res.status # "ok" /\ call.res.val = << >>
  /\ (HeaderNoneCall("encrypt") /\ IvConfigured(engine.val)
        /\ call.res.status = "ok") =>
       LET self == engine.val
           key == PassphraseKey(self.keysize, self.passphrase)
           d == cbc_decrypt(self.cipher_class, key, self.iv[1], call.res.val)
       IN  /\ call.res.header = << >>
           /\ call.res.iv = self.iv
           /\ ~call.res.drew
           /\ d.status = "ok"
           /\ Len(d.val) = Len(call.res.val)
           /\ BeginsWith(d.val, PlainBytes(call.arg))
  /\ (HeaderNoneCall("decrypt") /\ IvConfigured(engine.val)) =>
       LET self == engine.val
           key == PassphraseKey(self.keysize, self.passphrase)
           d == cbc_decrypt(self.cipher_class, key, self.iv[1], call.arg)
       IN  IF d.status # "ok"
           THEN call.res.status # "ok" /\ call.res.val = << >>
           ELSE call.res = unpad(self, d.val)

\* without an IV, in header mode none, a decrypt of a whole block raised
C18_Witness ==
  /\ HeaderNoneCall("decrypt")
  /\ engine.val.iv = None
  /\ Len(call.arg) = DesBlockSize
  /\ engine.val.blocksize = DesBlockSize
  /\ call.res.status = "ValueError"


\* the exception types of a rejected configuration (a 7-byte salt) and of a
\* non-aligned plaintext under padding none
ValidationFailure ==
  CryptCBC(PassTest, "DES", HEADER_SALT, PADDING_STANDARD, None, None, None,
           Some(SubSeq(FixedSalt, 1, SaltLen - 1))).status

PaddingFailure ==
  pad(CryptCBC(PassTest, "DES", HEADER_SALT, PADDING_NONE, None, None, None,
               None).val, <<1>>).status

\* C19: failures are distinct typed errors the caller can tell apart: a
\* header marker mismatch is a FormatError, a bad salt or IV length or an
\* unsupported cipher/header combination a ValidationError, a non-aligned
\* input under padding None a PaddingError.
C19_TypedErrors ==
  /\ (DecryptWithHeader /\ ~BeginsWith(call.arg, ExpectedMarker(engine.val)))
       => /\ call.res.status # "ok"
          /\ call.res.status \notin {ValidationFailure, PaddingFailure}
  /\ (call.op = "new" /\ call.res # "ok")
       => call.res = ValidationFailure /\ call.res # PaddingFailure
  /\ (PaddingCall("_pad", PADDING_NONE) /\ call.res.status # "ok")
       => call.res.status = PaddingFailure


\* the constructor was given the salt (Salted mode) or the IV (RandomIV and
\* None modes)
ExplicitlyConfigured(self) ==
  IF self.header_mode = HEADER_SALT THEN self.salt # None
  ELSE self.header_mode \in {HEADER_RANDOMIV, HEADER_NONE} /\ self.iv # None

\* C20: with the salt (Salted mode) or the IV (RandomIV and None modes)
\* explicitly configured, encrypt reads nothing from the random source and
\* returns the same bytes whatever the random source would have returned, so
\* two calls with equal passphrase, configuration and plaintext agree.
C20_ConfiguredEncryptDeterministic ==
  (call.op = "encrypt" /\ engine.status = "ok"
     /\ ExplicitlyConfigured(engine.val)) =>
    /\ ~call.res.drew
    /\ \A rnd \in RandomDraws :
         LET again == encrypt(engine.val, call.arg, rnd)
         IN  again.status = call.res.status /\ again.val = call.res.val


(***************************************************************************)
(* Threads calling encrypt and decrypt on shared engine objects.  A call   *)
(* is a frame of locals; a thread switch can happen between any two of its *)
(* steps.                                                                  *)
(***************************************************************************)
NumThreads == 2
MaxCalls == 2

Threads == 1..NumThreads

\* the engine objects the threads share: Salted and RandomIV, both without
\* a configured salt or IV, so that every encrypt draws
SharedEngines ==
  <<CryptCBC(PassTest, "DES", HEADER_SALT, PADDING_STANDARD, None, None, None,
             None).val,
    CryptCBC(PassTest, "DES", HEADER_RANDOMIV, PADDING_STANDARD, None, None,
             None, None).val>>

ThreadPlain == PlainBody(DesBlockSize - 1)

\* what the threads pass to decrypt: a blob that the Salted engine made
\* earlier, which the RandomIV engine refuses
ThreadBlobs ==
  {encrypt(SharedEngines[1], Bytes(ThreadPlain), FixedSalt).val}

NoLast == [op |-> "none"]
IdleFrame ==
  [pc |-> "idle", inst |-> 0, op |-> "none", arg |-> << >>, rnd |-> << >>,
   drew |-> FALSE, salt |-> << >>, key |-> << >>, iv |-> << >>,
   header |-> << >>, data |-> << >>, ret |-> << >>, last |-> NoLast,
   made |-> 0]

ThreadInit ==
  /\ engine = NoEngine
  /\ call = NoCall
  /\ wire = NoWire
  /\ instances = SharedEngines
  /\ threads = [t \in Threads |-> IdleFrame]
  /\ db = NoDb
  /\ reqs = NoReqs

\* the number of calls made so far by all threads
CallsMade ==
  Cardinality({c \in Threads \X (1..MaxCalls) : c[2] <= threads[c[1]].made})

\* a variant in which every thread works on the frame of thread 1
Frame_shared(t) == threads[1]

\* the frame of the call thread t is in: each call has its own locals
Frame(t) == threads[t]

\* a variant of encrypt's header step that keeps the salt or IV it used on
\* the engine
SelfAfterHeader_stored(self, used) ==
  IF self.header_mode = HEADER_SALT THEN [self EXCEPT !.salt = Some(used)]
  ELSE [self EXCEPT !.iv = Some(used)]

\* the engine after the header step of encrypt: salt, key, iv and header are
\* locals, no attribute of self is assigned
SelfAfterHeader(self, used) == self

\* thread t calls instances[i].encrypt(arg) or .decrypt(arg)
StartCall(t, i, op, arg, rnd) ==
  /\ threads[t].pc = "idle"
  /\ CallsMade < MaxCalls
  /\ op = "decrypt" => arg \in ThreadBlobs /\ rnd = << >>
  /\ op = "encrypt" => arg = ThreadPlain /\ rnd \in RandomDraws
  /\ threads' = [threads EXCEPT ![t] =
                    [IdleFrame EXCEPT !.pc = "header", !.inst = i, !.op = op,
                                      !.arg = arg, !.rnd = rnd,
                                      !.last = threads[t].last,
                                      !.made = threads[t].made + 1]]
  /\ UNCHANGED <<engine, call, wire, instances, apiVars>>

\* the call of thread t ends with ret (a value or an exception)
Done(f, ret) ==
  [f EXCEPT !.pc = "done", !.ret = ret]

\* encrypt l.187-205: salt or IV, key and header
EncryptHeader(t) ==
  LET f == Frame(t)
      self == instances[f.inst]
  IN  /\ threads[t].pc = "header"
      /\ f.op = "encrypt"
      /\ IF self.header_mode = HEADER_SALT THEN
           LET salt == IF Truthy(self.salt) THEN self.salt[1] ELSE f.rnd
               kiv == salted_key_and_iv(self, self.passphrase, salt)
           IN  /\ threads' = [threads EXCEPT ![t] =
                   IF kiv.status # "ok" THEN Done(f, Raise(kiv.status))
                   ELSE [f EXCEPT !.pc = "pad", !.drew = ~Truthy(self.salt),
                                  !.salt = salt, !.key = kiv.val[1],
                                  !.iv = kiv.val[2],
                                  !.header = SaltedHeader(salt)]]
               /\ instances' = [instances EXCEPT ![f.inst] =
                     IF kiv.status # "ok" THEN self
                     ELSE SelfAfterHeader(self, salt)]
         ELSE IF self.header_mode = HEADER_RANDOMIV THEN
           LET iv == IF Truthy(self.iv) THEN self.iv[1] ELSE f.rnd
           IN  /\ threads' = [threads EXCEPT ![t] =
                   IF self.blocksize # RandomIVBlock
                   THEN Done(f, Raise("ValueError"))
                   ELSE [f EXCEPT !.pc = "pad", !.drew = ~Truthy(self.iv),
                                  !.key = key_from_passphrase(self,
                                                              self.passphrase),
                                  !.iv = iv, !.header = RandomIVHeader(iv)]]
               /\ instances' = [instances EXCEPT ![f.inst] =
                     IF self.blocksize # RandomIVBlock THEN self
                     ELSE SelfAfterHeader(self, iv)]
         ELSE IF self.header_mode = HEADER_NONE THEN
           /\ threads' = [threads EXCEPT ![t] =
                 IF ~Truthy(self.iv) THEN Done(f, Raise("ValueError"))
                 ELSE [f EXCEPT !.pc = "pad",
                                !.key = key_from_passphrase(self,
                                                            self.passphrase),
                                !.iv = self.iv[1], !.header = << >>]]
           /\ UNCHANGED instances
         ELSE /\ threads' = [threads EXCEPT ![t] =
                               Done(f, Raise("ValueError"))]
              /\ UNCHANGED instances
      /\ UNCHANGED <<engine, call, wire, apiVars>>

\* encrypt l.208: padded_data = self._pad(plaintext)
EncryptPad(t) ==
  LET f == Frame(t)
      padded_data == pad(instances[f.inst], f.arg)
  IN  /\ threads[t].pc = "pad"
      /\ threads' = [threads EXCEPT ![t] =
            IF padded_data.status # "ok" THEN Done(f, Raise(padded_data.status))
            ELSE [f EXCEPT !.pc = "cipher", !.data = padded_data.val]]
      /\ UNCHANGED <<engine, call, wire, instances, apiVars>>

\* encrypt l.211-214: the CBC encryption and the return
EncryptCipher(t) ==
  LET f == Frame(t)
      ciphertext == cbc_encrypt(instances[f.inst].cipher_class, f.key, f.iv,
                                f.data)
  IN  /\ threads[t].pc = "cipher"
      /\ f.op = "encrypt"
      /\ threads' = [threads EXCEPT ![t] =
            IF ciphertext.status # "ok" THEN Done(f, Raise(ciphertext.status))
            ELSE Done(f, Ok(f.header \o ciphertext.val))]
      /\ UNCHANGED <<engine, call, wire, instances, apiVars>>

\* decrypt l.227-245: the header is parsed, key and IV are found
DecryptHeader(t) ==
  LET f == Frame(t)
      self == instances[f.inst]
      rest == Slice(f.arg, 16, Len(f.arg))
  IN  /\ threads[t].pc = "header"
      /\ f.op = "decrypt"
      /\ threads' = [threads EXCEPT ![t] =
            IF self.header_mode = HEADER_SALT THEN
              IF ~startswith(f.arg, SaltedMarker)
              THEN Done(f, Raise("ValueError"))
              ELSE LET salt == Slice(f.arg, 8, 16)
                       kiv == salted_key_and_iv(self, self.passphrase, salt)
                   IN  IF kiv.status # "ok" THEN Done(f, Raise(kiv.status))
                       ELSE [f EXCEPT !.pc = "cipher", !.salt = salt,
                                      !.key = kiv.val[1], !.iv = kiv.val[2],
                                      !.data = rest]
            ELSE IF self.header_mode = HEADER_RANDOMIV THEN
              IF ~startswith(f.arg, RandomIVMarker)
              THEN Done(f, Raise("ValueError"))
              ELSE [f EXCEPT !.pc = "cipher", !.iv = Slice(f.arg, 8, 16),
                             !.key = key_from_passphrase(self, self.passphrase),
                             !.data = rest]
            ELSE IF self.header_mode = HEADER_NONE THEN
              IF ~Truthy(self.iv) THEN Done(f, Raise("ValueError"))
              ELSE [f EXCEPT !.pc = "cipher", !.iv = self.iv[1],
                             !.key = key_from_passphrase(self, self.passphrase),
                             !.data = f.arg]
            ELSE Done(f, Raise("ValueError"))]
      /\ UNCHANGED <<engine, call, wire, instances, apiVars>>

\* decrypt l.248-249: the CBC decryption
DecryptCipher(t) ==
  LET f == Frame(t)
      padded_data == cbc_decrypt(instances[f.inst].cipher_class, f.key, f.iv,
                                 f.data)
  IN  /\ threads[t].pc = "cipher"
      /\ f.op = "decrypt"
      /\ threads' = [threads EXCEPT ![t] =
            IF padded_data.status # "ok" THEN Done(f, Raise(padded_data.status))
            ELSE [f EXCEPT !.pc = "unpad", !.data = padded_data.val]]
      /\ UNCHANGED <<engine, call, wire, instances, apiVars>>

\* decrypt l.252-254: the padding is removed, the plaintext returned
DecryptUnpad(t) ==
  LET f == Frame(t)
  IN  /\ threads[t].pc = "unpad"
      /\ threads' = [threads EXCEPT ![t] =
                        Done(f, unpad(instances[f.inst], f.data))]
      /\ UNCHANGED <<engine, call, wire, instances, apiVars>>

\* the caller takes the result; the frame is gone
Return(t) ==
  LET f == threads[t]
  IN  /\ f.pc = "done"
      /\ threads' = [threads EXCEPT ![t] =
            [IdleFrame EXCEPT
               !.last = [op |-> f.op, inst |-> f.inst, arg |-> f.arg,
                         rnd |-> f.rnd, ret |-> f.ret],
               !.made = f.made]]
      /\ UNCHANGED <<engine, call, wire, instances, apiVars>>

ThreadNext ==
  \/ \E t \in Threads, i \in 1..2, op \in {"encrypt", "decrypt"},
        arg \in {ThreadPlain} \cup ThreadBlobs,
        rnd \in RandomDraws \cup {<< >>} :
       StartCall(t, i, op, arg, rnd)
  \/ \E t \in Threads : EncryptHeader(t)
  \/ \E t \in Threads : EncryptPad(t)
  \/ \E t \in Threads : EncryptCipher(t)
  \/ \E t \in Threads : DecryptHeader(t)
  \/ \E t \in Threads : DecryptCipher(t)
  \/ \E t \in Threads : DecryptUnpad(t)
  \/ \E t \in Threads : Return(t)

ThreadSpec == ThreadInit /\ [][ThreadNext]_vars

\* what a call returns when it runs alone on the engine as constructed
AloneResult(inst, op, arg, rnd) ==
  IF op = "encrypt"
  THEN LET r == encrypt(SharedEngines[inst], Bytes(arg), rnd)
       IN  [status |-> r.status, val |-> r.val]
  ELSE decrypt(SharedEngines[inst], arg)

\* the calls of thread t that have ended: the one whose result has not been
\* taken yet and the one taken before
EndedCalls(t) ==
  (IF threads[t].pc = "done"
   THEN {[op |-> threads[t].op, inst |-> threads[t].inst,
          arg |-> threads[t].arg, rnd |-> threads[t].rnd,
          ret |-> threads[t].ret]}
   ELSE {})
  \cup ({threads[t].last} \ {NoLast})

\* C21: encrypt and decrypt leave every field of the engine unchanged,
\* whether they return or raise; a drawn salt or IV is not stored on the
\* engine, so every encrypt without configured salt or IV frames its output
\* with the bytes drawn for that very call, whatever calls came before.
C21_EngineUnchanged ==
  /\ instances = SharedEngines
  /\ \A t \in Threads : \A c \in EndedCalls(t) :
       c.op = "encrypt" =>
         /\ c.ret.status = "ok"
         /\ Slice(c.ret.val, SaltLen, HeaderLen) = c.rnd

\* one thread encrypted twice on the same engine with two different draws,
\* and the two outputs carry their own draw
C21_Witness ==
  \E t \in Threads :
    LET a == threads[t].last
        b == threads[t]
    IN  /\ a # NoLast /\ b.pc = "done"
        /\ a.op = "encrypt" /\ b.op = "encrypt"
        /\ a.inst = b.inst
        /\ a.rnd # b.rnd
        /\ Slice(a.ret.val, SaltLen, HeaderLen) = a.rnd
        /\ Slice(b.ret.val, SaltLen, HeaderLen) = b.rnd
        /\ instances = SharedEngines

\* C22: in every interleaving of the steps of encrypt and decrypt calls made
\* by several threads, on the same engine object or on different ones, each
\* call returns exactly what it returns when run alone with the same input
\* and the same random draw.
C22_InterleavingIndependent ==
  \A t \in Threads : \A c \in EndedCalls(t) :
    c.ret = AloneResult(c.inst, c.op, c.arg, c.rnd)

\* a call on an engine ended while another thread was inside an encrypt on
\* the same engine with another draw
C22_Witness ==
  \E t, u \in Threads :
    /\ t # u
    /\ threads[t].pc = "done"
    /\ threads[t].op = "encrypt"
    /\ threads[t].ret.status = "ok"
    /\ threads[u].pc \in {"pad", "cipher"}
    /\ threads[u].op = "encrypt"
    /\ threads[u].inst = threads[t].inst
    /\ threads[u].rnd # threads[t].rnd


\* the characters '0'..'9' and 'a'..'f'
LowerHexChars == (48..57) \cup (97..102)

\* the bytes a string of lowercase hex digit pairs stands for
LowerHexBytes(hex) ==
  LET v(c) == IF c <= 57 THEN c - 48 ELSE c - 87
  IN  [i \in 1..(Len(hex) \div 2) |-> 16 * v(hex[2 * i - 1]) + v(hex[2 * i])]

\* the engine is the fixed configuration of the token helpers
IsTokenEngine(e) ==
  /\ e.status = "ok"
  /\ e.val.cipher_class = "DES"
  /\ e.val.keysize = DesKeySize
  /\ e.val.blocksize = DesBlockSize
  /\ e.val.header_mode = HEADER_SALT
  /\ e.val.padding_method = PADDING_STANDARD
  /\ e.val.iv = None
  /\ e.val.salt = None

\* C23: encrypt_guardian_token(s, k) returns a string of lowercase hex
\* digits without separators, of length 32 + 16 * N with
\* N = len(utf8(s)) div 8 + 1, that starts with the hex of 'Salted__' and is
\* the hex encoding of the blob the DES / Salted / Standard engine makes of
\* utf8(s); both token helpers use that engine and no other.
C23_TokenHexFormat ==
  /\ call.op \in {"encrypt_guardian_token", "decrypt_guardian_token"}
       => IsTokenEngine(engine) /\ engine.val.passphrase = call.arg[2]
  /\ call.op = "encrypt_guardian_token" =>
       LET s == str_encode(call.arg[1]).val
           hex == call.res.val
       IN  /\ call.res.status = "ok"
           /\ \A i \in 1..Len(hex) : hex[i] \in LowerHexChars
           /\ Len(hex) = 2 * HeaderLen + 2 * DesBlockSize
                                          * (Len(s) \div DesBlockSize + 1)
           /\ SubSeq(hex, 1, 2 * SaltLen)
                = <<53, 51, 54, 49, 54, 99, 55, 52,
                    54, 53, 54, 52, 53, 102, 53, 102>>
           /\ \E rnd \in RandomDraws :
                LowerHexBytes(hex) = encrypt(engine.val, Bytes(s), rnd).val

\* the token for "12345" has 48 characters
C23_Witness ==
  /\ call.op = "encrypt_guardian_token"
  /\ call.arg[1] = <<49, 50, 51, 52, 53>>
  /\ call.res.status = "ok"
  /\ Len(call.res.val) = 48
  /\ IsTokenEngine(engine)


\* C24: the work of Standard unpadding does not depend on whether the
\* padding is valid: for two inputs of the same length it examines the same
\* number of bytes whether the padding is correct, obviously wrong (last byte
\* 0 or greater than block_size) or wrong in a later byte.
C24_UnpadWorkUniform ==
  PaddingCall("_unpad", PADDING_STANDARD) =>
    \A other \in UnpadInputs :
      Len(other) = Len(call.arg) =>
        unpad_standard_examined(engine.val, other)
          = unpad_standard_examined(engine.val, call.arg)


\* salts and IVs an engine with block size bs can be constructed with
ConfigurableSalts == {None, Some(FixedSalt)}
ConfigurableIVs(bs) == {None, Some(FixedIV(bs))}

\* C27: in Salted and RandomIV modes decrypt takes the salt or IV from the
\* blob header only: its result is the same whatever salt and iv the engine
\* was constructed with, and an engine configured with salt S1 decrypts a
\* blob framed with another salt S2 to what the sender's padding leaves of
\* the plaintext.
C27_HeaderSaltOnly ==
  /\ DecryptWithHeader =>
       \A salt \in ConfigurableSalts, iv \in ConfigurableIVs(engine.val.blocksize) :
         decrypt([engine.val EXCEPT !.salt = salt, !.iv = iv], call.arg)
           = call.res
  /\ (RoundTrip /\ engine.val.header_mode \in {HEADER_SALT, HEADER_RANDOMIV})
       => call.res = unpad(wire.sender, pad(wire.sender, wire.plaintext.v).val)

\* an engine configured with the zero salt returned the plaintext of a blob
\* framed with a drawn salt
C27_Witness ==
  /\ RoundTrip
  /\ engine.val.header_mode = HEADER_SALT
  /\ engine.val.salt = Some(ZeroSalt)
  /\ wire.enc.salt \in {Some(d) : d \in RandomDraws}
  /\ wire.plaintext.v # << >>
  /\ wire.sender.padding_method = PADDING_STANDARD
  /\ call.res = Ok(wire.plaintext.v)


(***************************************************************************)
(* The public endpoints (app/api/endpoints/public.py) over the tables of   *)
(* app/models.  A request is a frame of locals that advances from one      *)
(* await to the next; requests interleave at the awaits.                   *)
(***************************************************************************)
NumRequests == 2
Requests == 1..NumRequests

\* the JSON answer of a handler
Response(status_code, body) == [status_code |-> status_code, body |-> body]
NoResponse == Response(0, [pending |-> TRUE])

\* raise HTTPException(status_code=..., detail={"error": ...})
HTTPException(status_code, error) ==
  Response(status_code, [detail |-> [error |-> error]])

\* an exception no handler catches leaves the endpoint: the request fails
\* with a server error and the session is discarded
Unhandled(e) == Response(500, [exception |-> e])

\* except ValueError: the exception classes of the model that are ValueError
\* or a subclass of it
IsValueError_exact(e) == e = "ValueError"

IsValueError(e) ==
  e \in {"ValueError", "UnicodeDecodeError", "UnicodeEncodeError",
         "UnknownHashError"}

\* columns of the mapped classes
ResetPasswordColumns ==
  {"id", "cliente_id", "token", "valid_until", "used_at",
   "requested_by_remote_ip", "used_by_remote_ip", "created_at"}

\* the constructor of a mapped class: keyword arguments that name no
\* attribute of the class are a TypeError
declarative_init(columns, kwargs) ==
  IF DOMAIN kwargs \subseteq columns THEN Ok(kwargs) ELSE Raise("TypeError")

\* Class.name in a query: an attribute the class does not have is an
\* AttributeError
class_attr(columns, name) ==
  IF name \in columns THEN Ok(name) ELSE Raise("AttributeError")

\* Result.scalar_one_or_none()
scalar_one_or_none(rows) ==
  IF Len(rows) = 0 THEN Ok(None)
  ELSE IF Len(rows) = 1 THEN Ok(Some(rows[1]))
  ELSE Raise("MultipleResultsFound")

\* values a handler passes where a mapped object is expected
PyInt(n) == [type |-> "int", v |-> n]
ClienteObj(row) == [type |-> "Cliente", v |-> row]

\* settings.SECRET_KEY: "changethis"
SecretKey == <<99, 104, 97, 110, 103, 101, 116, 104, 105, 115>>

(***************************************************************************)
(* int(str)                                                                *)
(***************************************************************************)
\* str.strip() whitespace among the code points of the model
IsPySpace(c) == c \in {9, 10, 11, 12, 13, 28, 29, 30, 31, 32, 133, 160}

RECURSIVE lstrip_space(_)
lstrip_space(s) ==
  IF Len(s) > 0 /\ IsPySpace(s[1]) THEN lstrip_space(Tail(s)) ELSE s

RECURSIVE rstrip_space(_)
rstrip_space(s) ==
  IF Len(s) > 0 /\ IsPySpace(s[Len(s)])
  THEN rstrip_space(SubSeq(s, 1, Len(s) - 1)) ELSE s

\* value of a decimal digit (ASCII or Arabic-Indic), -1 when it is none
DigitValue(c) ==
  IF c >= 48 /\ c <= 57 THEN c - 48
  ELSE IF c >= 1632 /\ c <= 1641 THEN c - 1632
  ELSE -1

Underscore == 95

\* digits, with single underscores allowed between two digits
WellFormedDigits(b) ==
  /\ Len(b) > 0
  /\ DigitValue(b[1]) >= 0
  /\ DigitValue(b[Len(b)]) >= 0
  /\ \A i \in 1..Len(b) : DigitValue(b[i]) >= 0 \/ b[i] = Underscore
  /\ \A i \in 1..(Len(b) - 1) : ~(b[i] = Underscore /\ b[i + 1] = Underscore)

RECURSIVE DigitsValue(_, _, _)
DigitsValue(b, i, acc) ==
  IF i > Len(b) THEN acc
  ELSE IF b[i] = Underscore THEN DigitsValue(b, i + 1, acc)
  ELSE DigitsValue(b, i + 1, acc * 10 + DigitValue(b[i]))

\* int(s) for a str s: the integer, or ValueError
int_parse(s) ==
  LET t == rstrip_space(lstrip_space(s))
      signed == Len(t) > 0 /\ t[1] \in {43, 45}
      body == IF signed THEN Tail(t) ELSE t
  IN  IF ~WellFormedDigits(body) THEN Raise("ValueError")
      ELSE IF signed /\ t[1] = 45 THEN Ok(0 - DigitsValue(body, 1, 0))
      ELSE Ok(DigitsValue(body, 1, 0))

(***************************************************************************)
(* The tables                                                              *)
(***************************************************************************)
\* datetime.utcnow() of the model, and the age of the rows already stored
Now == 5

RegisteredEmail == "ana@example.com"
UnknownEmail == "bob@example.com"
OldHash == "bcrypt$old"

\* tokens of clientes_reset_password rows: "v", "u", "e", and "n" for none
TokenValid == <<118>>
TokenUsed == <<117>>
TokenExpired == <<101>>
TokenUnknown == <<110>>

\* what secrets.token_urlsafe(32) may return
UrlsafeTokens == {<<65>>, <<66>>}

ResetRow(id, token, valid_until, used_at) ==
  [id |-> id, cliente_id |-> 1, token |-> token, valid_until |-> valid_until,
   used_at |-> used_at, requested_by_remote_ip |-> "0.0.0.0",
   created_at |-> 1]

GuardioRow(id, status, accepted_at, deleted_at, token) ==
  [id |-> id, cliente_id |-> 1, status |-> status,
   accepted_at |-> accepted_at, deleted_at |-> deleted_at, token |-> token,
   expires_at |-> Now + 5]

\* one user with an unused, a used and an expired reset token, and with a
\* pending and an accepted invitation
ApiDb ==
  [tables |-> "public",
   clientes |-> << [id |-> 1, email |-> RegisteredEmail,
                    senha_sha256 |-> OldHash, apelido |-> "ana",
                    qtde_guardioes_ativos |-> 1] >>,
   resets |-> << ResetRow(1, TokenValid, Now + 1, None),
                 ResetRow(2, TokenUsed, Now + 1, Some(Now - 1)),
                 ResetRow(3, TokenExpired, Now - 1, None) >>,
   guardioes |-> << GuardioRow(1, "pending", None, None, "g1"),
                    GuardioRow(2, "accepted", Some(Now - 1), None, "g2") >>]

IdleRequest ==
  [pc |-> "new", endpoint |-> "none",
   body |-> [email |-> "", token |-> << >>, new_password |-> ""],
   user |-> None, guardiao |-> None, response |-> NoResponse]

ApiInit ==
  /\ engine = NoEngine
  /\ call = NoCall
  /\ wire = NoWire
  /\ instances = NoInstances
  /\ threads = NoThreads
  /\ db = ApiDb
  /\ reqs = [r \in Requests |-> IdleRequest]

\* the handler of request r ends with this response
Finish(f, response) == [f EXCEPT !.pc = "done", !.response = response]

(***************************************************************************)
(* Request bodies                                                          *)
(***************************************************************************)
\* the engine of the invitation tokens of this deployment
InviteCbc == GuardianEngine(SecretKey).val
InviteToken(b) == encrypt_hex(InviteCbc, Bytes(b), FixedSalt).val

\* tokens for the texts " 1", "2", "7" and "x"
InviteOne == InviteToken(<<32, 49>>)
InviteTwo == InviteToken(<<50>>)
InviteSeven == InviteToken(<<55>>)
InviteLetter == InviteToken(<<120>>)
\* a token whose plaintext is no UTF-8, "zz", and a blob without the Salted
\* header
InviteNotText == InviteToken(<<255>>)
InviteNotHex == <<122, 122>>
InviteNoHeader == bytes_hex(Repeat(0, 2 * DesBlockSize))

InviteTokens ==
  {InviteOne, InviteTwo, InviteSeven, InviteLetter,
   InviteNotText, InviteNotHex, InviteNoHeader}

ResetBodies ==
  {[email |-> e, token |-> << >>, new_password |-> ""] :
     e \in {RegisteredEmail, UnknownEmail}}
ConfirmBodies ==
  {[email |-> "", token |-> t, new_password |-> "new"] :
     t \in {TokenValid, TokenUsed, TokenExpired, TokenUnknown}}
AcceptBodies ==
  {[email |-> "", token |-> t, new_password |-> ""] : t \in InviteTokens}

\* a client sends request r
Call(r, endpoint, body) ==
  /\ reqs[r].pc = "new"
  /\ reqs' = [reqs EXCEPT ![r] = [@ EXCEPT !.pc = "start",
                                           !.endpoint = endpoint,
                                           !.body = body]]
  /\ UNCHANGED <<engine, call, wire, threadVars, db>>

(***************************************************************************)
(* POST /reset-password                                                    *)
(***************************************************************************)
\* request_password_reset up to the answer of the first query
ResetSelectUser(r) ==
  /\ reqs[r].pc = "start"
  /\ reqs[r].endpoint = "/reset-password"
  /\ LET ByEmail(c) == c.email = reqs[r].body.email
         user == scalar_one_or_none(SelectSeq(db.clientes, ByEmail))
     IN  reqs' = [reqs EXCEPT ![r] =
           IF user.status # "ok" THEN Finish(@, Unhandled(user.status))
           ELSE IF user.val = None THEN
             Finish(@, Response(200,
               [success |-> TRUE,
                message |->
                  "Se o email existir, um link de recuperação será enviado"]))
           ELSE [@ EXCEPT !.pc = "create", !.user = user.val]]
  /\ UNCHANGED <<engine, call, wire, threadVars, db>>

\* request_password_reset from the token to the return
ResetCreate(r, token) ==
  /\ reqs[r].pc = "create"
  /\ LET user == reqs[r].user[1]
         reset_record ==
           declarative_init(ResetPasswordColumns,
             [cliente_id |-> user.id, token |-> token, created_at |-> Now,
              expires_at |-> Now + 24])
     IN  IF reset_record.status # "ok" THEN
           /\ reqs' = [reqs EXCEPT ![r] =
                         Finish(@, Unhandled(reset_record.status))]
           /\ UNCHANGED db
         ELSE IF ~({"valid_until", "requested_by_remote_ip"}
                     \subseteq DOMAIN reset_record.val) THEN
           \* a NOT NULL column without a value
           /\ reqs' = [reqs EXCEPT ![r] = Finish(@, Unhandled("IntegrityError"))]
           /\ UNCHANGED db
         ELSE
           /\ db' = [db EXCEPT !.resets = Append(@, reset_record.val)]
           /\ reqs' = [reqs EXCEPT ![r] =
                Finish(@, Response(200,
                  [success |-> TRUE,
                   message |-> "Email de recuperação enviado"]))]
  /\ UNCHANGED <<engine, call, wire, threadVars>>

(***************************************************************************)
(* POST /reset-password/confirm                                            *)
(***************************************************************************)
\* confirm_password_reset
ConfirmReset(r) ==
  /\ reqs[r].pc = "start"
  /\ reqs[r].endpoint = "/reset-password/confirm"
  /\ LET expires_at == class_attr(ResetPasswordColumns, "expires_at")
         Valid(row) == /\ row.token = reqs[r].body.token
                       /\ row.used_at = None
                       /\ row[expires_at.val] > Now
         reset_record == scalar_one_or_none(SelectSeq(db.resets, Valid))
     IN  IF expires_at.status # "ok" THEN
           /\ reqs' = [reqs EXCEPT ![r] =
                         Finish(@, Unhandled(expires_at.status))]
           /\ UNCHANGED db
         ELSE IF reset_record.status # "ok" THEN
           /\ reqs' = [reqs EXCEPT ![r] =
                         Finish(@, Unhandled(reset_record.status))]
           /\ UNCHANGED db
         ELSE IF reset_record.val = None THEN
           /\ reqs' = [reqs EXCEPT ![r] =
                Finish(@, HTTPException(400, "Token inválido ou expirado"))]
           /\ UNCHANGED db
         ELSE
           LET rec == reset_record.val[1]
               ById(c) == c.id = rec.cliente_id
               users == SelectSeq(db.clientes, ById)
           IN  IF Len(users) = 0 THEN
                 /\ reqs' = [reqs EXCEPT ![r] =
                      Finish(@, HTTPException(404, "Usuário não encontrado"))]
                 /\ UNCHANGED db
               ELSE
                 \* user.senha is no column: the commit stores used_at only
                 /\ db' = [db EXCEPT !.resets =
                      [i \in DOMAIN @ |->
                         IF @[i].id = rec.id
                         THEN [@[i] EXCEPT !.used_at = Some(Now)] ELSE @[i]]]
                 /\ reqs' = [reqs EXCEPT ![r] =
                      Finish(@, Response(200,
                        [success |-> TRUE,
                         message |-> "Senha alterada com sucesso"]))]
  /\ UNCHANGED <<engine, call, wire, threadVars>>

(***************************************************************************)
(* Guardian invitations                                                    *)
(***************************************************************************)
\* helpers.guardioes.recalc_qtde_guardioes_ativos(db, user) on the tables d
\* the session sees: the tables after its commit, or the exception
recalc_qtde_guardioes_ativos(d, user) ==
  IF user.type # "Cliente" THEN Raise("AttributeError")
  ELSE LET Counted(g) == /\ g.cliente_id = user.v.id
                         /\ g.status = "accepted"
                         /\ g.deleted_at = None
           count == Len(SelectSeq(d.guardioes, Counted))
       IN  Ok([d EXCEPT !.clientes =
                 [i \in DOMAIN @ |->
                    IF @[i].id = user.v.id
                    THEN [@[i] EXCEPT !.qtde_guardioes_ativos = count]
                    ELSE @[i]]])

\* the tables with invitation id replaced by g
WithGuardiao(d, g) ==
  [d EXCEPT !.guardioes =
     [i \in DOMAIN @ |-> IF @[i].id = g.id THEN g ELSE @[i]]]

\* helpers.guardioes.accept_guardian_invitation(db, token)
AcceptInvitation(token) ==
  /\ db.tables = "public"
  /\ LET Pending(g) == g.token = token /\ g.status = "pending"
         found == SelectSeq(db.guardioes, Pending)
     IN  /\ Len(found) = 1
         /\ ~(found[1].expires_at < Now)
         /\ LET guardiao == [found[1] EXCEPT !.status = "accepted",
                                             !.accepted_at = Some(Now)]
                stored == WithGuardiao(db, guardiao)
                ById(c) == c.id = guardiao.cliente_id
                users == SelectSeq(stored.clientes, ById)
            IN  db' = IF Len(users) = 0 THEN stored
                      ELSE recalc_qtde_guardioes_ativos(
                             stored, ClienteObj(users[1])).val
  /\ UNCHANGED <<engine, call, wire, threadVars, reqs>>

\* accept_guardian_invite up to the answer of the query
AcceptDecrypt(r) ==
  /\ reqs[r].pc = "start"
  /\ reqs[r].endpoint = "/web/guardiao/accept"
  /\ LET decrypted == decrypt_guardian_token(reqs[r].body.token, SecretKey)
         guardiao_id == IF decrypted.status # "ok" THEN decrypted
                        ELSE int_parse(decrypted.val)
         ById(g) == g.id = guardiao_id.val
     IN  reqs' = [reqs EXCEPT ![r] =
           IF guardiao_id.status # "ok" THEN
             IF IsValueError(guardiao_id.status)
             THEN Finish(@, HTTPException(400, "Token inválido"))
             ELSE Finish(@, Unhandled(guardiao_id.status))
           ELSE LET guardiao ==
                      scalar_one_or_none(SelectSeq(db.guardioes, ById))
                IN  IF guardiao.status # "ok"
                    THEN Finish(@, Unhandled(guardiao.status))
                    ELSE [@ EXCEPT !.pc = "selected",
                                   !.guardiao = guardiao.val]]
  /\ UNCHANGED <<engine, call, wire, threadVars, db>>

\* accept_guardian_invite from the answer of the query to the return
AcceptUpdate(r) ==
  /\ reqs[r].pc = "selected"
  /\ IF reqs[r].guardiao = None THEN
       /\ reqs' = [reqs EXCEPT ![r] =
            Finish(@, HTTPException(404, "Convite não encontrado"))]
       /\ UNCHANGED db
     ELSE IF reqs[r].guardiao[1].status # "pending" THEN
       /\ reqs' = [reqs EXCEPT ![r] =
            Finish(@, HTTPException(400, "Convite já foi processado"))]
       /\ UNCHANGED db
     ELSE
       LET guardiao == [reqs[r].guardiao[1] EXCEPT !.status = "active",
                                                   !.accepted_at = Some(Now)]
           recalc == recalc_qtde_guardioes_ativos(
                       WithGuardiao(db, guardiao), PyInt(guardiao.cliente_id))
       IN  IF recalc.status # "ok" THEN
             /\ reqs' = [reqs EXCEPT ![r] =
                  IF IsValueError(recalc.status)
                  THEN Finish(@, HTTPException(400, "Token inválido"))
                  ELSE Finish(@, Unhandled(recalc.status))]
             /\ UNCHANGED db
           ELSE
             /\ db' = recalc.val
             /\ reqs' = [reqs EXCEPT ![r] =
                  Finish([@ EXCEPT !.guardiao = Some(guardiao)],
                    Response(200,
                      [success |-> TRUE,
                       message |-> "Convite aceito com sucesso!",
                       guardiao_id |-> guardiao.id]))]
  /\ UNCHANGED <<engine, call, wire, threadVars>>

\* clients of the two password-reset endpoints
ResetNext ==
  \/ \E r \in Requests, body \in ResetBodies :
       Call(r, "/reset-password", body)
  \/ \E r \in Requests, body \in ConfirmBodies :
       Call(r, "/reset-password/confirm", body)
  \/ \E r \in Requests : ResetSelectUser(r)
  \/ \E r \in Requests, token \in UrlsafeTokens : ResetCreate(r, token)
  \/ \E r \in Requests : ConfirmReset(r)

ResetSpec == ApiInit /\ [][ResetNext]_vars

\* clients of the invitation endpoint, next to the helper that accepts an
\* invitation by the token stored in its row
GuardianNext ==
  \/ \E r \in Requests, body \in AcceptBodies :
       Call(r, "/web/guardiao/accept", body)
  \/ \E r \in Requests : AcceptDecrypt(r)
  \/ \E r \in Requests : AcceptUpdate(r)
  \/ \E token \in {"g1", "g2"} : AcceptInvitation(token)

GuardianSpec == ApiInit /\ [][GuardianNext]_vars

\* C25: every finished POST /reset-password answers 200 with success true,
\* and any two of them, whatever their emails, answer with the same body
ResetDone(r) ==
  reqs[r].pc = "done" /\ reqs[r].endpoint = "/reset-password"

C25_ResetAnswersAlike ==
  /\ \A r \in DOMAIN reqs :
       ResetDone(r) =>
         /\ reqs[r].response.status_code = 200
         /\ reqs[r].response.body.success = TRUE
  /\ \A r1, r2 \in DOMAIN reqs :
       ResetDone(r1) /\ ResetDone(r2) =>
         reqs[r1].response.body = reqs[r2].response.body

(***************************************************************************)
(* Password hashing: app/core/security.py.  hashlib.sha256 and bcrypt are  *)
(* external primitives, modelled as uninterpreted hashes; the rules by     *)
(* which the CryptContext recognises a hash are the library's.             *)
(***************************************************************************)
Sha256Len == 32

\* hashlib.sha256(b).hexdigest()
sha256_hexdigest(b) ==
  LET h == Md5Absorb(b, 1, 11)
  IN  bytes_hex([i \in 1..Sha256Len |->
                   ((h + 3) * (2 * i + 1) + (h \div 256) * (i + 1)) % 256])

\* str.lower() on the code points of the model
str_lower(s) ==
  [i \in 1..Len(s) |-> IF s[i] >= 65 /\ s[i] <= 90 THEN s[i] + 32 ELSE s[i]]

\* str.upper(), for stored digests written in capitals
str_upper(s) ==
  [i \in 1..Len(s) |-> IF s[i] >= 97 /\ s[i] <= 122 THEN s[i] - 32 ELSE s[i]]

\* "$2b$12$": the identifier and cost that open a bcrypt hash
BcryptIdent == <<36, 50, 98, 36, 49, 50, 36>>
\* characters of salt and checksum in a hash of the model
BcryptSaltChars == 1
BcryptChecksumChars == 4

\* the checksum bcrypt computes for a secret under a salt
bcrypt_checksum(secret, salt) ==
  LET h == Md5Absorb(secret \o salt, 1, 13)
  IN  bytes_hex(<<h % 256, (h \div 256) % 256>>)

\* CryptContext.hash(password) of the bcrypt scheme with the salt drawn
pwd_context_hash(password, salt) ==
  LET secret == str_encode(password)
  IN  IF secret.status # "ok" THEN Raise(secret.status)
      ELSE Ok(BcryptIdent \o salt \o bcrypt_checksum(secret.val, salt))

\* CryptContext.verify(secret, hash): a hash no configured scheme
\* identifies is an UnknownHashError
pwd_context_verify(password, hash) ==
  IF ~startswith(hash, BcryptIdent) THEN Raise("UnknownHashError")
  ELSE IF Len(hash) # Len(BcryptIdent) + BcryptSaltChars + BcryptChecksumChars
  THEN Raise("MalformedHashError")
  ELSE LET secret == str_encode(password)
           salt == Slice(hash, Len(BcryptIdent),
                         Len(BcryptIdent) + BcryptSaltChars)
       IN  IF secret.status # "ok" THEN Raise(secret.status)
           ELSE Ok(hash = BcryptIdent \o salt
                            \o bcrypt_checksum(secret.val, salt))

verify_password(plain_password, hashed_password) ==
  LET secret == str_encode(plain_password)
  IN  IF secret.status # "ok" THEN Raise(secret.status)
      ELSE IF str_lower(sha256_hexdigest(secret.val))
              = str_lower(hashed_password) THEN Ok(TRUE)
      ELSE pwd_context_verify(plain_password, hashed_password)

get_password_hash(password, salt) == pwd_context_hash(password, salt)

\* "right", "Right", "wrong", "", "senhaã" and a lone surrogate
Passwords ==
  {<<114, 105, 103, 104, 116>>, <<82, 105, 103, 104, 116>>,
   <<119, 114, 111, 110, 103>>, << >>, <<115, 101, 110, 104, 227>>,
   <<55296>>}
\* salts the bcrypt scheme may draw: "a", "b"
BcryptSalts == {<<97>>, <<98>>}

HashWire(password, kind, hashed) ==
  [kind |-> kind, password |-> password, hashed |-> hashed]

HashInit ==
  /\ engine = NoEngine
  /\ call = NoCall
  /\ wire = NoWire
  /\ instances = NoInstances
  /\ threads = NoThreads
  /\ db = NoDb
  /\ reqs = NoReqs

\* a user's password is stored by get_password_hash
GetPasswordHash(password, salt) ==
  /\ LET r == get_password_hash(password, salt)
     IN  /\ call' = [op |-> "get_password_hash", arg |-> <<password, salt>>,
                     res |-> r]
         /\ wire' = IF r.status = "ok"
                    THEN HashWire(password, "bcrypt", r.val) ELSE wire
  /\ UNCHANGED <<engine, threadVars, apiVars>>

\* a user's password was stored by the legacy system as sha256_hex, in either
\* case of the hex digits
LegacyHash(password, capitals) ==
  /\ str_encode(password).status = "ok"
  /\ LET d == sha256_hexdigest(str_encode(password).val)
         h == IF capitals THEN str_upper(d) ELSE d
     IN  /\ call' = [op |-> "sha256_hex", arg |-> <<password, capitals>>,
                     res |-> Ok(h)]
         /\ wire' = HashWire(password, "legacy", h)
  /\ UNCHANGED <<engine, threadVars, apiVars>>

\* a login attempt: verify_password against the stored hash
VerifyPassword(plain_password) ==
  /\ wire # NoWire
  /\ call' = [op |-> "verify_password",
              arg |-> <<plain_password, wire.hashed>>,
              res |-> verify_password(plain_password, wire.hashed)]
  /\ UNCHANGED <<engine, wire, threadVars, apiVars>>

HashNext ==
  \/ \E p \in Passwords, salt \in BcryptSalts : GetPasswordHash(p, salt)
  \/ \E p \in Passwords, capitals \in BOOLEAN : LegacyHash(p, capitals)
  \/ \E q \in Passwords : VerifyPassword(q)

HashSpec == HashInit /\ [][HashNext]_vars

\* C26: against the stored hash of p, bcrypt or legacy in either case,
\* verify_password answers True for p and answers False, raising nothing,
\* for every other password
Verified == call.op = "verify_password"

C26_VerifyPassword ==
  Verified =>
    IF call.arg[1] = wire.password THEN call.res = Ok(TRUE)
    ELSE call.res = Ok(FALSE)

\* the step in which the handler of request r answers
Answers(r) == reqs[r].pc # "done" /\ reqs'[r].pc = "done"

IsInvalidToken(response) ==
  response = HTTPException(400, "Token inválido")

\* what is wrong with an invitation token, read off the token itself
TokenNotHex(t) == bytes_fromhex(t).status # "ok"
TokenNoHeader(t) ==
  /\ ~TokenNotHex(t)
  /\ ~startswith(bytes_fromhex(t).val, SaltedMarker)
TokenNotText(t) ==
  /\ decrypt_hex(InviteCbc, t).status = "ok"
  /\ bytes_decode(decrypt_hex(InviteCbc, t).val).status # "ok"
TokenNotInteger(t) ==
  /\ decrypt_guardian_token(t, SecretKey).status = "ok"
  /\ int_parse(decrypt_guardian_token(t, SecretKey).val).status # "ok"
TokenId(t) == int_parse(decrypt_guardian_token(t, SecretKey).val).val

\* C28: accept_guardian_invite answers 400 'Token inválido' to a token that
\* is no hex, lacks the Salted header, decrypts to no text or to no integer,
\* 404 when no invitation has the decrypted id, 400 when the invitation it
\* selected is not pending, and in each of these cases changes no row
C28_AcceptRejects ==
  [][\A r \in DOMAIN reqs :
       Answers(r) /\ reqs[r].endpoint = "/web/guardiao/accept" =>
         LET t == reqs[r].body.token
             response == reqs'[r].response
             invalid == \/ TokenNotHex(t) \/ TokenNoHeader(t)
                        \/ TokenNotText(t) \/ TokenNotInteger(t)
             unknown == /\ ~invalid
                        /\ reqs[r].pc = "selected"
                        /\ reqs[r].guardiao = None
             processed == /\ ~invalid
                          /\ reqs[r].pc = "selected"
                          /\ reqs[r].guardiao # None
                          /\ reqs[r].guardiao[1].status # "pending"
         IN  /\ invalid => IsInvalidToken(response)
             /\ unknown =>
                  response = HTTPException(404, "Convite não encontrado")
             /\ processed => response.status_code = 400
             /\ invalid \/ unknown \/ processed => db' = db]_vars

\* a rejection has been answered
RejectedWith(t, status_code) ==
  \E r \in DOMAIN reqs :
    /\ reqs[r].pc = "done"
    /\ reqs[r].body.token = t
    /\ reqs[r].response.status_code = status_code

C28_Witness ==
  /\ db.tables = "public"
  /\ RejectedWith(InviteNotText, 400)
  /\ RejectedWith(InviteSeven, 404)

\* the row with this id in a table
RowById(rows, id) == rows[CHOOSE i \in DOMAIN rows : rows[i].id = id]

\* the user's invitations that count as active guardians in the tables d
ActiveGuardians(d, cliente_id) ==
  {i \in DOMAIN d.guardioes :
     /\ d.guardioes[i].cliente_id = cliente_id
     /\ d.guardioes[i].status = "accepted"
     /\ d.guardioes[i].deleted_at = None}

\* C29: when accept_guardian_invite has selected a pending invitation, it
\* answers 200 with success true, the stored invitation is no longer pending
\* and has accepted_at set, and the inviter's qtde_guardioes_ativos is the
\* number of their accepted, non-deleted invitations, this one among them
C29_AcceptCompletes ==
  [][\A r \in DOMAIN reqs :
       /\ Answers(r)
       /\ reqs[r].pc = "selected"
       /\ reqs[r].guardiao # None
       /\ reqs[r].guardiao[1].status = "pending"
       => LET id == reqs[r].guardiao[1].id
              stored == RowById(db'.guardioes, id)
              inviter == RowById(db'.clientes, stored.cliente_id)
              active == ActiveGuardians(db', stored.cliente_id)
          IN  /\ reqs'[r].response.status_code = 200
              /\ reqs'[r].response.body.success = TRUE
              /\ stored.status # "pending"
              /\ stored.accepted_at # None
              /\ inviter.qtde_guardioes_ativos = Cardinality(active)
              /\ \E i \in active : db'.guardioes[i].id = id]_vars

\* rows of clientes_reset_password with token t, and whether one of them can
\* still be used in the tables d
ResetRowsOf(d, t) == {i \in DOMAIN d.resets : d.resets[i].token = t}
Usable(d, t) ==
  \E i \in ResetRowsOf(d, t) :
    d.resets[i].used_at = None /\ d.resets[i].valid_until > Now
Spent(d, t) ==
  /\ ResetRowsOf(d, t) # {}
  /\ \A i \in ResetRowsOf(d, t) : d.resets[i].used_at # None

\* C30: confirm_password_reset answers 200 only for a token that exists, is
\* unused and has not expired, and then marks it used; for a token that has
\* been used it answers 400 and changes no password; and of the confirms
\* with one token at most one answers 200
C30_TokenUsedOnce ==
  [][\A r \in DOMAIN reqs :
       Answers(r) /\ reqs[r].endpoint = "/reset-password/confirm" =>
         LET t == reqs[r].body.token
             response == reqs'[r].response
         IN  /\ response.status_code = 200 =>
                  Usable(db, t) /\ ~Usable(db', t)
             /\ Spent(db, t) =>
                  /\ response.status_code = 400
                  /\ db'.clientes = db.clientes
             /\ response.status_code = 200 =>
                  \A r2 \in DOMAIN reqs \ {r} :
                    ~(/\ reqs[r2].pc = "done"
                      /\ reqs[r2].endpoint = "/reset-password/confirm"
                      /\ reqs[r2].body.token = t
                      /\ reqs[r2].response.status_code = 200)]_vars
====
